---- MODULE Spec2Model ----
(***************************************************************************)
(* Model of the simulated microservices of the SRE observability platform. *)
(*                                                                         *)
(* order-service   (src/unnamed/part_001): handleCreateOrder calls         *)
(*   user-service and payment-service through two gobreaker circuit        *)
(*   breakers (callDownstream).                                            *)
(* payment-service (src/unnamed/part_003): handleProcessPayment runs a     *)
(*   simulated fraud check through one gobreaker circuit breaker           *)
(*   (runFraudCheck).                                                      *)
(*                                                                         *)
(* Every microservice is a process of its own with its own metric          *)
(* registry; a behaviour of Spec is a run of one of the two processes      *)
(* (variable service, fixed by Init).  The request handlers of a process   *)
(* run as concurrent goroutines; an action is one atomic step of one       *)
(* goroutine: the code it runs from one blocking point (time.Sleep, the    *)
(* HTTP round trip, the simulated fraud check) to the next, with at most   *)
(* one operation of a breaker, which runs under the breaker's mutex.       *)
(*                                                                         *)
(* The breaker is github.com/sony/gobreaker as configured by newServer:    *)
(* Execute(req) is beforeRequest; req(); afterRequest, the first and the   *)
(* last under the breaker's mutex.  Time is a clock of whole seconds.      *)
(***************************************************************************)
EXTENDS Integers, Sequences, FiniteSets, TLC

\* ------------------------------------------------------------------------
\* Bounds of the model
\* ------------------------------------------------------------------------
NumHandlers == 2      \* goroutines serving requests concurrently
MaxServed == 3        \* requests the clients send in a behaviour of Spec
MaxCalls == 9         \* payments the clients send in a behaviour of SpecBreaker
MaxOrders == 6        \* orders the clients send in a behaviour of SpecBreaker
TickSecs == 15        \* seconds the clock advances in one step
MaxAmount == 1        \* amounts a payment draws
MaxPayments == 6      \* payments the clients send in a behaviour of SpecPayment
MaxTime == 45         \* the clock stops here

\* ------------------------------------------------------------------------
\* Configuration of the breakers (newServer)
\* ------------------------------------------------------------------------
\* a breaker that lets a single probe through (gobreaker's default)
MaxRequestsOne == 3 - 2
\* a breaker that lets two probes through
MaxRequestsTwo == 3 - 1
MaxRequests == 3      \* gobreaker.Settings.MaxRequests
Interval == 10        \* gobreaker.Settings.Interval, seconds
\* the cooldown set to the length of the counting interval
TimeoutAsInterval == Interval
Timeout == 30         \* gobreaker.Settings.Timeout, seconds
MinRequests == 5      \* ReadyToTrip: counts.Requests >= 5

OrderBreakers == {"user-service", "payment-service"}
PaymentBreakers == {"fraud-detection"}
Breakers == OrderBreakers \cup PaymentBreakers
Services == {"order-service", "payment-service"}

BreakersOf(svc) == IF svc = "order-service" THEN OrderBreakers ELSE PaymentBreakers

\* failure ratio threshold of a breaker as a fraction <<numerator, denominator>>
\* (0.5 for the breakers of order-service, 0.6 for the fraud breaker)
RatioThreshold(name) == IF name \in OrderBreakers THEN <<1, 2>> ELSE <<3, 5>>

\* gobreaker.State
StateClosed == "closed"
StateHalfOpen == "half-open"
StateOpen == "open"
States == {StateClosed, StateHalfOpen, StateOpen}

\* the zero time.Time (no expiry)
ZeroTime == -1
\* a gauge child that was never set is not exported
Unset == -1

ZeroCounts ==
  [Requests |-> 0, TotalSuccesses |-> 0, TotalFailures |-> 0,
   ConsecutiveSuccesses |-> 0, ConsecutiveFailures |-> 0]

VARIABLES
  service,                  \* the process this behaviour is a run of
  now,                      \* wall clock, seconds since process start
  cb,                       \* breaker name -> state of the gobreaker.CircuitBreaker
  circuitBreakerState,      \* gauge circuit_breaker_state{service}
  downstreamRequestsTotal,  \* counter downstream_requests_total{service,status}
  inFlight,                 \* gauge orders_in_progress / payments_in_flight
  seqCounter,               \* Server.orderCounter / Server.paymentCounter
  ordersCreatedTotal,       \* counter orders_created_total
  processingDuration,       \* sample count of the *_processing_duration_seconds histogram
  paymentTransactionsTotal, \* counter payment_transactions_total{status}
  httpRequestsTotal,        \* counter http_requests_total{status} of the POST route
  stateChangeLog,           \* breaker name -> from/to of the last "circuit breaker state change" logged
  errorLog,                 \* the error of the last failed guarded call a handler logged
  h,                        \* handler goroutine -> its position and locals
  pending,                  \* requests the clients of the process still send
  paymentAmountTotal,       \* counter payment_amount_total{currency="USD"}
  ready,                    \* Server.ready
  warmup,                   \* position of the warm-up goroutine of main
  phase,                    \* position of main: running, shutting down, stopped
  probe,                    \* the last answer of /healthz or /readyz
  call,                     \* a call of a pure function: its arguments and result
  cfg,                      \* loadGenerator.cfg
  ctxDone,                  \* the context of the load generator is cancelled
  lgPhase,                  \* position of main of the load generator
  loop,                     \* target -> locals of its generateTraffic goroutine
  currentRPS,               \* gauge loadgen_current_rps{service}
  requestsSentTotal,        \* counter loadgen_requests_sent_total by service
  hour,                     \* time.Now().Hour()
  sending,                  \* target -> sendRequest goroutines that have not returned
  responsesReceivedTotal,   \* counter loadgen_responses_received_total, over its labels
  requestErrors,            \* counter loadgen_request_errors_total{type}, over services
  cache,                    \* user-service: userCache.store, id -> user
  cacheHitsTotal,           \* counter cache_hits_total{result}
  cacheLatency,             \* sample count of cache_operation_duration_seconds{operation}
  userDBQueryDuration,      \* sample count of user_db_query_duration_seconds
  userRequestsTotal,        \* counter user_requests_total{operation}
  userAuthAttemptsTotal,    \* counter user_auth_attempts_total{result}
  reply,                    \* user-service: the last response written
  uh,                       \* user-service: handler goroutine -> position and userID
  sq,                       \* create handler goroutine -> position and its local seq
  takenSeqs,                \* the values Add(1) has returned, with the times each was returned
  issuedIds,                \* the ids written in 201 responses
  created                   \* the 201 responses written

handlerVars == <<service, now, cb, circuitBreakerState, downstreamRequestsTotal, inFlight,
                 seqCounter, ordersCreatedTotal, processingDuration,
                 paymentTransactionsTotal, httpRequestsTotal, stateChangeLog, errorLog,
                 h, pending, paymentAmountTotal>>
lifecycleVars == <<ready, warmup, phase, probe>>
pureVars == <<call>>
requestVars == <<sending, responsesReceivedTotal, requestErrors>>
loadgenVars == <<cfg, ctxDone, lgPhase, loop, currentRPS, requestsSentTotal, hour,
                 requestVars>>

\* what no request handler touches
userVars == <<cache, cacheHitsTotal, cacheLatency, userDBQueryDuration, userRequestsTotal,
              userAuthAttemptsTotal, reply, uh>>
sequenceVars == <<sq, takenSeqs, issuedIds, created>>
otherVars == <<lifecycleVars, pureVars, loadgenVars, userVars, sequenceVars>>

vars == <<handlerVars, lifecycleVars, pureVars, loadgenVars, userVars, sequenceVars>>

Handlers == 1..NumHandlers

\* ------------------------------------------------------------------------
\* gobreaker.CircuitBreaker.  An operation works on an environment
\*   e = [c |-> the breaker, g |-> the gauge vector circuit_breaker_state,
\*        log |-> the state changes logged]
\* because setState calls the OnStateChange hook of newServer.
\* ------------------------------------------------------------------------

\* Counts.onRequest / onSuccess / onFailure
CountsOnRequest(c) == [c EXCEPT !.Requests = @ + 1]

CountsOnSuccess(c) ==
  [c EXCEPT !.TotalSuccesses = @ + 1, !.ConsecutiveSuccesses = @ + 1,
            !.ConsecutiveFailures = 0]

CountsOnFailure(c) ==
  [c EXCEPT !.TotalFailures = @ + 1, !.ConsecutiveFailures = @ + 1,
            !.ConsecutiveSuccesses = 0]

\* Settings.ReadyToTrip of newServer:
\*   ratio := float64(TotalFailures) / float64(Requests)
\*   return Requests >= 5 && ratio >= threshold
\* (for the counts of the model the float comparison equals the integer one)
ReadyToTrip(name, counts) ==
  /\ counts.Requests >= MinRequests
  /\ counts.TotalFailures * RatioThreshold(name)[2]
       >= RatioThreshold(name)[1] * counts.Requests

\* the encodings of half-open and open exchanged
StateValueSwapped(to) ==
  CASE to = StateHalfOpen -> 2
    [] to = StateOpen -> 1
    [] OTHER -> 0

\* the value OnStateChange gives the gauge: v := 0.0; half-open 1; open 2
StateValue(to) ==
  CASE to = StateHalfOpen -> 1
    [] to = StateOpen -> 2
    [] OTHER -> 0

\* Settings.OnStateChange of newServer:
\*   logger.Warn("circuit breaker state change", "service", n, "from", .., "to", ..)
\*   circuitBreakerState.WithLabelValues(n).Set(v)
OnStateChange(e, n, from, to) ==
  [e EXCEPT !.log[n] = <<from, to>>, !.g[n] = StateValue(to)]

\* CircuitBreaker.toNewGeneration
toNewGeneration(c, t) ==
  [c EXCEPT !.generation = @ + 1,
            !.counts = ZeroCounts,
            !.expiry = CASE c.state = StateClosed -> t + Interval
                         [] c.state = StateOpen -> t + Timeout
                         [] OTHER -> ZeroTime]

\* CircuitBreaker.setState
setState(e, state, t) ==
  IF e.c.state = state THEN e
  ELSE OnStateChange([e EXCEPT !.c = toNewGeneration([e.c EXCEPT !.state = state], t)],
                     e.c.name, e.c.state, state)

\* CircuitBreaker.currentState: the lazy transitions that time causes
currentState(e, t) ==
  CASE e.c.state = StateClosed /\ e.c.expiry # ZeroTime /\ e.c.expiry < t ->
         [e EXCEPT !.c = toNewGeneration(e.c, t)]
    [] e.c.state = StateOpen /\ e.c.expiry < t ->
         setState(e, StateHalfOpen, t)
    [] OTHER -> e

\* CircuitBreaker.beforeRequest: the environment after it, the generation
\* handed to the caller and the error
beforeRequest(e, t) ==
  LET e1 == currentState(e, t) IN
  CASE e1.c.state = StateOpen ->
         [e |-> e1, generation |-> e1.c.generation, err |-> "ErrOpenState"]
    [] e1.c.state = StateHalfOpen /\ e1.c.counts.Requests >= MaxRequests ->
         [e |-> e1, generation |-> e1.c.generation, err |-> "ErrTooManyRequests"]
    [] OTHER ->
         [e |-> [e1 EXCEPT !.c.counts = CountsOnRequest(@)],
          generation |-> e1.c.generation, err |-> "nil"]

\* CircuitBreaker.onSuccess
onSuccess(e, t) ==
  CASE e.c.state = StateClosed -> [e EXCEPT !.c.counts = CountsOnSuccess(@)]
    [] e.c.state = StateHalfOpen ->
         LET e1 == [e EXCEPT !.c.counts = CountsOnSuccess(@)] IN
         IF e1.c.counts.ConsecutiveSuccesses >= MaxRequests
           THEN setState(e1, StateClosed, t)
           ELSE e1
    [] OTHER -> e

\* CircuitBreaker.onFailure
onFailure(e, t) ==
  CASE e.c.state = StateClosed ->
         LET e1 == [e EXCEPT !.c.counts = CountsOnFailure(@)] IN
         IF ReadyToTrip(e1.c.name, e1.c.counts)
           THEN setState(e1, StateOpen, t)
           ELSE e1
    [] e.c.state = StateHalfOpen -> setState(e, StateOpen, t)
    [] OTHER -> e

\* CircuitBreaker.afterRequest
afterRequest(e, before, success, t) ==
  LET e1 == currentState(e, t) IN
  IF e1.c.generation # before THEN e1
  ELSE IF success THEN onSuccess(e1, t) ELSE onFailure(e1, t)

\* gobreaker.NewCircuitBreaker at time t: closed, first generation
NewCircuitBreaker(name, t) ==
  toNewGeneration([name |-> name, state |-> StateClosed, generation |-> 0,
                   counts |-> ZeroCounts, expiry |-> ZeroTime], t)

Env(b) == [c |-> cb[b], g |-> circuitBreakerState, log |-> stateChangeLog]

\* the wrapped function run whatever the breaker answers
ExecuteUnguarded(b) == [beforeRequest(Env(b), now) EXCEPT !.err = "nil"]

\* cb.Execute(func ...) of callDownstream and of runFraudCheck, before the
\* wrapped function: the breaker decides whether the function runs
ExecuteBefore(b) == beforeRequest(Env(b), now)

\* cb.Execute(func ...) once the wrapped function returned: its error
\* (success = no error) is reported to the breaker
ExecuteAfter(b, generation, success) == afterRequest(Env(b), generation, success, now)

\* one breaker instance behind both dependencies of order-service
StoreShared(b, e) ==
  /\ cb' = [x \in Breakers |-> IF x \in OrderBreakers /\ b \in OrderBreakers
                                 THEN e.c ELSE IF x = b THEN e.c ELSE cb[x]]
  /\ circuitBreakerState' = e.g
  /\ stateChangeLog' = e.log

\* the breaker, the gauge and the log take the values of environment e
Store(b, e) ==
  /\ cb' = [cb EXCEPT ![b] = e.c]
  /\ circuitBreakerState' = e.g
  /\ stateChangeLog' = e.log

\* ------------------------------------------------------------------------
\* Handler goroutines
\* ------------------------------------------------------------------------

\* a goroutine that handles no request; generation is the generation
\* beforeRequest handed to the Execute the goroutine is in
IdleHandler == [pc |-> "idle", generation |-> 0]

\* what the wrapped HTTP call of callDownstream can meet: the request cannot
\* be built, the transport fails (connection error, 5s client timeout), or
\* the dependency answers with a status code
StatusCodes == {200, 201, 402, 500}
Outcomes ==
  {[kind |-> "create_err", code |-> 0], [kind |-> "transport_err", code |-> 0]}
    \cup {[kind |-> "response", code |-> c] : c \in StatusCodes}

PaymentStatuses == {"success", "declined", "fraud_check_failed", "gateway_error"}

\* the statuses handleCreateOrder and handleProcessPayment answer with
HttpStatuses == {201, 402, 500, 502}

\* the state after main has constructed the server of process svc, whose
\* clients will send n requests
InitProcess(svc, n) ==
  /\ service = svc
  /\ pending = n
  /\ now = 0
  /\ cb = [b \in Breakers |-> NewCircuitBreaker(b, 0)]
  /\ circuitBreakerState = [b \in Breakers |-> Unset]
  /\ stateChangeLog = [b \in Breakers |-> <<>>]
  /\ errorLog = "none"
  /\ downstreamRequestsTotal = [b \in Breakers |-> [error |-> 0, success |-> 0]]
  /\ inFlight = 0
  /\ seqCounter = 0
  /\ ordersCreatedTotal = 0
  /\ processingDuration = 0
  /\ paymentTransactionsTotal = [s \in PaymentStatuses |-> 0]
  /\ httpRequestsTotal = [c \in HttpStatuses |-> 0]
  /\ h = [r \in Handlers |-> IdleHandler]
  /\ paymentAmountTotal = 0

\* no probe of /healthz or /readyz was answered
NoProbe == [path |-> "none", status |-> 0]

\* the process has just started: the warm-up goroutine sleeps, main waits
\* for a signal
InitLifecycle ==
  /\ ready = FALSE
  /\ warmup = "sleeping"
  /\ phase = "running"
  /\ probe = NoProbe

\* no pure function is being looked at
NoCall == [fn |-> "none"]

\* the process is no load generator
NoRequests ==
  /\ sending = << >>
  /\ responsesReceivedTotal = 0
  /\ requestErrors = << >>

NoLoadgen ==
  /\ cfg = [BaseRPS |-> 0, BurstMultiplier |-> 0, BurstDuration |-> 0]
  /\ ctxDone = FALSE
  /\ lgPhase = "none"
  /\ loop = << >>
  /\ currentRPS = << >>
  /\ requestsSentTotal = << >>
  /\ hour = 0
  /\ NoRequests

\* the process is not user-service: no cache, no user metrics
NoUser ==
  /\ cache = << >>
  /\ cacheHitsTotal = << >>
  /\ cacheLatency = << >>
  /\ userDBQueryDuration = 0
  /\ userRequestsTotal = << >>
  /\ userAuthAttemptsTotal = << >>
  /\ reply = [op |-> "none", status |-> 0]
  /\ uh = << >>

NoSequence ==
  /\ sq = << >>
  /\ takenSeqs = << >>
  /\ issuedIds = {}
  /\ created = 0

Init ==
  /\ \E svc \in Services : InitProcess(svc, MaxServed)
  /\ InitLifecycle /\ call = NoCall /\ NoLoadgen /\ NoUser /\ NoSequence

breakerVars == <<cb, circuitBreakerState, stateChangeLog>>
ledgerVars == <<paymentAmountTotal>>

\* an Add whose update is lost once the counter holds 1
CounterAddLost(c) == IF c = 1 THEN c ELSE c + 1

\* atomic.Int64.Add(1): the new value
CounterAdd(c) == c + 1

RECURSIVE Digits(_)
\* the decimal digits of n, most significant first
Digits(n) == IF n < 10 THEN <<n>> ELSE Append(Digits(n \div 10), n % 10)

\* fmt.Sprintf(prefix + "-%06d", n): the digits of n padded with zeros to
\* six places, never cut
Sprintf06(prefix, n) ==
  LET d == Digits(n)
  IN <<prefix>> \o [i \in 1..(IF Len(d) < 6 THEN 6 - Len(d) ELSE 0) |-> 0] \o d

\* amount := float64(rand.Intn(100000)) / 100.0, in sample units
Amounts == 0..MaxAmount
orderMetrics == <<ordersCreatedTotal, processingDuration, httpRequestsTotal, inFlight>>
paymentMetrics == <<paymentTransactionsTotal, processingDuration, httpRequestsTotal, inFlight>>

\* time passes
Tick ==
  /\ now + TickSecs <= MaxTime
  /\ now' = now + TickSecs
  /\ UNCHANGED <<service, breakerVars, downstreamRequestsTotal, inFlight, seqCounter,
                 ordersCreatedTotal, processingDuration, paymentTransactionsTotal,
                 httpRequestsTotal, errorLog, h, pending, ledgerVars>>
  /\ UNCHANGED otherVars

\* a return path that misses the Dec() of the in-flight gauge
ReturnNoDec(r, status) ==
  /\ h' = [h EXCEPT ![r] = IdleHandler]
  /\ inFlight' = inFlight
  /\ httpRequestsTotal' = [httpRequestsTotal EXCEPT ![status] = @ + 1]

\* the handler of goroutine r has written its response with this status and
\* returns: the deferred Dec() of the in-flight gauge runs and
\* metricsMiddleware counts the request
Return(r, status) ==
  /\ h' = [h EXCEPT ![r] = IdleHandler]
  /\ inFlight' = inFlight - 1
  /\ httpRequestsTotal' = [httpRequestsTotal EXCEPT ![status] = @ + 1]

\* ---- order-service: handleCreateOrder ---------------------------------

\* ordersInProgress.Inc(); defer ordersInProgress.Dec(); orderCounter.Add(1);
\* the goroutine then sleeps in time.Sleep(simulateLatency(200, 80, 0.05))
handleCreateOrderEnter(r) ==
  /\ service = "order-service"
  /\ h[r].pc = "idle"
  /\ pending > 0
  /\ pending' = pending - 1
  /\ inFlight' = inFlight + 1
  /\ seqCounter' = CounterAdd(seqCounter)
  /\ h' = [h EXCEPT ![r].pc = "sleep"]
  /\ UNCHANGED ledgerVars
  /\ UNCHANGED <<service, now, breakerVars, downstreamRequestsTotal, ordersCreatedTotal,
                 processingDuration, paymentTransactionsTotal, httpRequestsTotal,
                 errorLog>>
  /\ UNCHANGED otherVars

\* position of handleCreateOrder before and inside the call to a dependency
CallPc(b) == IF b = "user-service" THEN "sleep" ELSE "payment"
HttpPc(b) == IF b = "user-service" THEN "user_http" ELSE "pay_http"

\* an error branch that returns without observing the duration
DependencyFailedNoObserve(r, err) ==
  /\ errorLog' = err
  /\ processingDuration' = processingDuration
  /\ h' = [h EXCEPT ![r] = IdleHandler]
  /\ inFlight' = inFlight - 1
  /\ httpRequestsTotal' = [httpRequestsTotal EXCEPT ![502] = @ + 1]
  /\ UNCHANGED ordersCreatedTotal

\* the branch `if err := s.callDownstream(...); err != nil` of handleCreateOrder:
\* logger.Error(.., "error", err); orderProcessingDuration.Observe;
\* writeError(w, .., http.StatusBadGateway); return
DependencyFailed(r, err) ==
  /\ errorLog' = err
  /\ processingDuration' = processingDuration + 1
  /\ Return(r, 502)
  /\ UNCHANGED ordersCreatedTotal

\* handleCreateOrder up to the wrapped function of callDownstream(b): for
\* user-service the simulated latency has been slept; cb.Execute runs
\* beforeRequest and either starts the wrapped function or returns the
\* breaker's error, which makes the handler answer 502
callDownstreamBegin(r, b) ==
  /\ service = "order-service"
  /\ b \in OrderBreakers
  /\ h[r].pc = CallPc(b)
  /\ LET res == ExecuteBefore(b) IN
       /\ Store(b, res.e)
       /\ IF res.err = "nil"
            THEN /\ h' = [h EXCEPT ![r] = [pc |-> HttpPc(b), generation |-> res.generation]]
                 /\ UNCHANGED <<orderMetrics, errorLog>>
            ELSE DependencyFailed(r, res.err)
  /\ UNCHANGED <<service, now, downstreamRequestsTotal, seqCounter,
                 paymentTransactionsTotal, pending, ledgerVars>>
  /\ UNCHANGED otherVars

\* the error of the function callDownstream wraps, for what the call met:
\* NewRequestWithContext failed, httpClient.Do failed, resp.StatusCode >= 500
WrappedCallFails(o) == o.kind # "response" \/ o.code >= 500

\* the rest of handleCreateOrder once both dependencies answered: the
\* simulated internal error (rand.Float64() < 0.02, answer 500) or the
\* created order (answer 201)
handleCreateOrderDecide(r, internalError) ==
  /\ processingDuration' = processingDuration + 1
  /\ ordersCreatedTotal' = IF internalError THEN ordersCreatedTotal
                                            ELSE ordersCreatedTotal + 1
  /\ Return(r, IF internalError THEN 500 ELSE 201)
  /\ UNCHANGED errorLog

\* the wrapped function of callDownstream(b) completes with outcome o,
\* Execute runs afterRequest, callDownstream returns and handleCreateOrder
\* goes on: 502 on an error, else the payment call or the final decision
callDownstreamEnd(r, b, o, internalError) ==
  /\ service = "order-service"
  /\ b \in OrderBreakers
  /\ h[r].pc = HttpPc(b)
  /\ LET failed == WrappedCallFails(o) IN
       /\ downstreamRequestsTotal' =
            [downstreamRequestsTotal EXCEPT
               ![b][IF failed THEN "error" ELSE "success"] = @ + 1]
       /\ Store(b, ExecuteAfter(b, h[r].generation, ~failed))
       /\ IF failed
            THEN DependencyFailed(r, "error")
            ELSE IF b = "user-service"
              THEN /\ h' = [h EXCEPT ![r] = [pc |-> "payment", generation |-> 0]]
                   /\ UNCHANGED <<orderMetrics, errorLog>>
              ELSE handleCreateOrderDecide(r, internalError)
  /\ UNCHANGED <<service, now, seqCounter, paymentTransactionsTotal, pending,
                 paymentAmountTotal>>
  /\ UNCHANGED otherVars

\* ---- payment-service: handleProcessPayment ------------------------------

\* paymentsInFlight.Inc(); defer paymentsInFlight.Dec(); paymentCounter.Add(1);
\* the goroutine then sleeps the gateway latency of the drawn payment type
handleProcessPaymentEnter(r) ==
  /\ service = "payment-service"
  /\ h[r].pc = "idle"
  /\ pending > 0
  /\ pending' = pending - 1
  /\ inFlight' = inFlight + 1
  /\ seqCounter' = CounterAdd(seqCounter)
  /\ h' = [h EXCEPT ![r].pc = "sleep"]
  /\ UNCHANGED ledgerVars
  /\ UNCHANGED <<service, now, breakerVars, downstreamRequestsTotal, ordersCreatedTotal,
                 processingDuration, paymentTransactionsTotal, httpRequestsTotal,
                 errorLog>>
  /\ UNCHANGED otherVars

\* a status in which a drawn decline hides the fraud-check error
PaymentStatusDeclineFirst(fraudErr, declined, gateway) ==
  IF declined \/ fraudErr # "nil"
    THEN IF declined THEN (IF gateway THEN "gateway_error" ELSE "declined")
         ELSE "fraud_check_failed"
    ELSE "success"

\* the status of a payment: declined is rand.Float64() < 0.05 and
\* gateway is the second draw rand.Float64() < 0.3
PaymentStatus(fraudErr, declined, gateway) ==
  IF declined \/ fraudErr # "nil"
    THEN IF fraudErr # "nil" THEN "fraud_check_failed"
         ELSE IF gateway THEN "gateway_error" ELSE "declined"
    ELSE "success"

\* handleProcessPayment after runFraudCheck returned fraudErr: log the
\* error, count the transaction, observe the duration, answer 402 or 201
handleProcessPaymentOutcome(r, fraudErr, declined, gateway) ==
  LET status == PaymentStatus(fraudErr, declined, gateway) IN
    /\ errorLog' = IF fraudErr # "nil" THEN fraudErr ELSE errorLog
    /\ paymentTransactionsTotal' = [paymentTransactionsTotal EXCEPT ![status] = @ + 1]
    /\ IF status = "success"
         THEN /\ \E amount \in Amounts : paymentAmountTotal' = paymentAmountTotal + amount
         ELSE UNCHANGED ledgerVars
    /\ processingDuration' = processingDuration + 1
    /\ Return(r, IF status = "success" THEN 201 ELSE 402)

\* handleProcessPayment up to the wrapped function of runFraudCheck: the
\* gateway latency has been slept; fraudBreaker.Execute runs beforeRequest and
\* starts the simulated check, or returns the breaker's error and the
\* handler goes on with it
runFraudCheckBegin(r, declined, gateway) ==
  /\ service = "payment-service"
  /\ h[r].pc = "sleep"
  /\ LET res == ExecuteBefore("fraud-detection") IN
       /\ Store("fraud-detection", res.e)
       /\ IF res.err = "nil"
            THEN /\ h' = [h EXCEPT ![r] = [pc |-> "fraud_run", generation |-> res.generation]]
                 /\ UNCHANGED <<paymentMetrics, errorLog, ledgerVars>>
            ELSE handleProcessPaymentOutcome(r, res.err, declined, gateway)
  /\ UNCHANGED <<service, now, downstreamRequestsTotal, seqCounter, ordersCreatedTotal,
                 pending>>
  /\ UNCHANGED otherVars

\* the simulated fraud check completes (timeout: rand.Float64() < 0.03),
\* Execute runs afterRequest, runFraudCheck returns the error and the
\* handler goes on with it
runFraudCheckEnd(r, timeout, declined, gateway) ==
  /\ service = "payment-service"
  /\ h[r].pc = "fraud_run"
  /\ downstreamRequestsTotal' =
       [downstreamRequestsTotal EXCEPT
          !["fraud-detection"][IF timeout THEN "error" ELSE "success"] = @ + 1]
  /\ Store("fraud-detection", ExecuteAfter("fraud-detection", h[r].generation, ~timeout))
  /\ handleProcessPaymentOutcome(r, IF timeout THEN "error" ELSE "nil", declined, gateway)
  /\ UNCHANGED <<service, now, seqCounter, ordersCreatedTotal, pending>>
  /\ UNCHANGED otherVars

Next ==
  \/ Tick
  \/ \E r \in Handlers : handleCreateOrderEnter(r)
  \/ \E r \in Handlers, b \in OrderBreakers : callDownstreamBegin(r, b)
  \/ \E r \in Handlers, b \in OrderBreakers, o \in Outcomes, e \in BOOLEAN :
       callDownstreamEnd(r, b, o, e)
  \/ \E r \in Handlers : handleProcessPaymentEnter(r)
  \/ \E r \in Handlers, d \in BOOLEAN, g \in BOOLEAN : runFraudCheckBegin(r, d, g)
  \/ \E r \in Handlers, t \in BOOLEAN, d \in BOOLEAN, g \in BOOLEAN :
       runFraudCheckEnd(r, t, d, g)

Spec == Init /\ [][Next]_vars

\* A longer burst of requests in which only the guarded dependency varies:
\* in payment-service the gateway declines nothing, in order-service
\* user-service answers 200, payment-service answers 201 or not at all and
\* no internal error is simulated
InitBreaker ==
  /\ \/ InitProcess("payment-service", MaxCalls)
     \/ InitProcess("order-service", MaxOrders)
  /\ InitLifecycle /\ call = NoCall /\ NoLoadgen /\ NoUser /\ NoSequence

Healthy == [kind |-> "response", code |-> 200]
BurstOutcomes(b) ==
  IF b = "user-service" THEN {Healthy}
  ELSE {[kind |-> "transport_err", code |-> 0], [kind |-> "response", code |-> 201]}

NextBreaker ==
  \/ Tick
  \/ \E r \in Handlers : handleCreateOrderEnter(r)
  \/ \E r \in Handlers, b \in OrderBreakers : callDownstreamBegin(r, b)
  \/ \E r \in Handlers, b \in OrderBreakers :
       \E o \in BurstOutcomes(b) : callDownstreamEnd(r, b, o, FALSE)
  \/ \E r \in Handlers : handleProcessPaymentEnter(r)
  \/ \E r \in Handlers : runFraudCheckBegin(r, FALSE, FALSE)
  \/ \E r \in Handlers, t \in BOOLEAN : runFraudCheckEnd(r, t, FALSE, FALSE)

SpecBreaker == InitBreaker /\ [][NextBreaker]_vars

\* order-service alone under a burst of orders that arrives within one
\* second (the clock stands still), with every outcome of both dependencies
\* and the simulated internal error
InitOutage ==
  /\ InitProcess("order-service", MaxOrders)
  /\ InitLifecycle /\ call = NoCall /\ NoLoadgen /\ NoUser /\ NoSequence

NextOutage ==
  \/ \E r \in Handlers : handleCreateOrderEnter(r)
  \/ \E r \in Handlers, b \in OrderBreakers : callDownstreamBegin(r, b)
  \/ \E r \in Handlers, b \in OrderBreakers, o \in Outcomes, e \in BOOLEAN :
       callDownstreamEnd(r, b, o, e)

SpecOutage == InitOutage /\ [][NextOutage]_vars

\* ------------------------------------------------------------------------
\* Properties of the circuit breakers
\* ------------------------------------------------------------------------

\* C1: while a breaker is Open and its 30s cooldown has not elapsed, a
\* guarded call (callDownstream, runFraudCheck) returns the circuit-open
\* error and the wrapped function is not invoked: the handler does not enter
\* the HTTP round trip or the fraud check, no downstream request is counted
\* and the breaker is left as it was.
C1_OpenRejects ==
  [][\A r \in Handlers, b \in Breakers :
       LET begins == \/ callDownstreamBegin(r, b)
                     \/ /\ b = "fraud-detection"
                        /\ \E d \in BOOLEAN, g \in BOOLEAN : runFraudCheckBegin(r, d, g)
       IN (cb[b].state = StateOpen /\ now <= cb[b].expiry /\ begins) =>
            /\ errorLog' = "ErrOpenState"
            /\ h'[r].pc \notin {"user_http", "pay_http", "fraud_run"}
            /\ cb'[b] = cb[b]
            /\ downstreamRequestsTotal' = downstreamRequestsTotal]_vars

\* a guarded call was rejected by a breaker that is Open within its cooldown
C1_Witness ==
  \E b \in Breakers :
    /\ cb[b].state = StateOpen
    /\ now <= cb[b].expiry
    /\ errorLog = "ErrOpenState"
    /\ httpRequestsTotal[502] + httpRequestsTotal[402] > 0

\* C2: a Closed breaker transitions to Open as soon as, within the current
\* counting interval, its request count is at least 5 and failures/requests
\* is at least the configured ratio (0.5 order-service, 0.6 fraud-detection):
\* no breaker is Closed with all its calls of the current interval completed,
\* at least 5 of them and the ratio reached.
C2_TripsAsSoonAsRatio ==
  \A b \in Breakers :
    LET c == cb[b].counts IN
    (/\ cb[b].state = StateClosed
     /\ now <= cb[b].expiry
     /\ c.Requests = c.TotalSuccesses + c.TotalFailures
     /\ c.Requests >= 5)
      => IF b = "fraud-detection"
           THEN 5 * c.TotalFailures < 3 * c.Requests
           ELSE 2 * c.TotalFailures < c.Requests

\* C3: once the cooldown of an Open breaker has elapsed the next guarded
\* call finds it Half-Open; in Half-Open a call is let through to the wrapped
\* function exactly when fewer than 3 probes were let through before it, and
\* any further call is rejected without invoking the wrapped function.
C3_HalfOpenProbes ==
  [][\A r \in Handlers, b \in Breakers :
       LET halfOpen == \/ cb[b].state = StateHalfOpen
                       \/ cb[b].state = StateOpen /\ cb[b].expiry < now
           probes == IF cb[b].state = StateHalfOpen THEN cb[b].counts.Requests ELSE 0
           wrapped == {"user_http", "pay_http", "fraud_run"}
           begins == \/ callDownstreamBegin(r, b)
                     \/ /\ b = "fraud-detection"
                        /\ \E d \in BOOLEAN, g \in BOOLEAN : runFraudCheckBegin(r, d, g)
       IN (halfOpen /\ begins) =>
            /\ cb'[b].state = StateHalfOpen
            /\ IF probes < 3
                 THEN /\ h'[r].pc \in wrapped
                      /\ cb'[b].counts.Requests = probes + 1
                 ELSE /\ h'[r].pc \notin wrapped
                      /\ errorLog' = "ErrTooManyRequests"
                      /\ cb'[b] = cb[b]
                      /\ downstreamRequestsTotal' = downstreamRequestsTotal]_vars

\* three probes were let through, one is still outstanding, and a fourth
\* call was rejected
C3_Witness ==
  \E b \in Breakers :
    /\ cb[b].state = StateHalfOpen
    /\ cb[b].counts.Requests = 3
    /\ errorLog = "ErrTooManyRequests"
    /\ \E r \in Handlers :
         /\ h[r].pc \in {"user_http", "pay_http", "fraud_run"}
         /\ h[r].generation = cb[b].generation

\* C4: in Half-Open, a probe that fails (transport error, status >= 500,
\* fraud check timeout) moves the breaker to Open with a cooldown of 30s from
\* now, whatever the number of probes that succeeded or are in flight.
C4_ProbeFailureReopens ==
  [][\A r \in Handlers, b \in Breakers :
       LET failedEnd ==
             \/ \E o \in Outcomes, e \in BOOLEAN :
                  /\ o.kind # "response" \/ o.code >= 500
                  /\ callDownstreamEnd(r, b, o, e)
             \/ /\ b = "fraud-detection"
                /\ \E d \in BOOLEAN, g \in BOOLEAN : runFraudCheckEnd(r, TRUE, d, g)
       IN (cb[b].state = StateHalfOpen /\ h[r].generation = cb[b].generation /\ failedEnd) =>
            /\ cb'[b].state = StateOpen
            /\ cb'[b].expiry = now + 30
            /\ cb'[b].counts = ZeroCounts]_vars

\* a probe failed after another probe had succeeded, and the breaker is Open
C4_Witness ==
  \E b \in Breakers :
    /\ cb[b].state = StateOpen
    /\ stateChangeLog[b] = <<StateHalfOpen, StateOpen>>
    /\ downstreamRequestsTotal[b].success > 0
    /\ now > 30

\* C5: in Half-Open, the breaker returns to Closed exactly at the third
\* consecutive successful probe, not at the first or the second, and its
\* counters are zero once it is Closed.
C5_ThreeSuccessesClose ==
  [][\A b \in Breakers :
       LET c == cb[b].counts IN
       /\ (cb[b].state = StateHalfOpen /\ cb'[b].state = StateClosed) =>
            /\ c.ConsecutiveSuccesses = 2
            /\ c.TotalFailures = 0
            /\ downstreamRequestsTotal'[b].success = downstreamRequestsTotal[b].success + 1
            /\ cb'[b].counts = ZeroCounts
       /\ \A r \in Handlers :
            LET successEnd ==
                  \/ \E o \in Outcomes, e \in BOOLEAN :
                       /\ o.kind = "response" /\ o.code < 500
                       /\ callDownstreamEnd(r, b, o, e)
                  \/ /\ b = "fraud-detection"
                     /\ \E d \in BOOLEAN, g \in BOOLEAN : runFraudCheckEnd(r, FALSE, d, g)
            IN (cb[b].state = StateHalfOpen /\ h[r].generation = cb[b].generation
                  /\ successEnd) =>
                 cb'[b].state = IF c.ConsecutiveSuccesses = 2 THEN StateClosed
                                                              ELSE StateHalfOpen]_vars

\* a breaker went from Half-Open to Closed and starts from zero
C5_Witness ==
  \E b \in Breakers :
    /\ cb[b].state = StateClosed
    /\ stateChangeLog[b] = <<StateHalfOpen, StateClosed>>
    /\ cb[b].counts = ZeroCounts

\* C6: every state transition of a breaker sets the gauge
\* circuit_breaker_state of its label to the encoding of the new state
\* (Closed 0, Half-Open 1, Open 2): once a breaker has changed state the gauge
\* of its label is the encoding of its state, and a step changes the gauge of
\* a label only when the breaker of that label changes state.
C6_GaugeEncodesState ==
  /\ [](\A b \in Breakers :
          IF stateChangeLog[b] = <<>>
            THEN cb[b].state = StateClosed /\ circuitBreakerState[b] = Unset
            ELSE /\ stateChangeLog[b][2] = cb[b].state
                 /\ cb[b].state = StateClosed => circuitBreakerState[b] = 0
                 /\ cb[b].state = StateHalfOpen => circuitBreakerState[b] = 1
                 /\ cb[b].state = StateOpen => circuitBreakerState[b] = 2)
  /\ [][\A b \in Breakers :
          circuitBreakerState'[b] # circuitBreakerState[b] =>
            cb'[b].state # cb[b].state]_vars

\* a breaker is Half-Open after having been Open, its gauge reads 1, while
\* the gauge of no other label was ever set
C6_Witness ==
  \E b \in Breakers :
    /\ cb[b].state = StateHalfOpen
    /\ circuitBreakerState[b] = 1
    /\ stateChangeLog[b] = <<StateOpen, StateHalfOpen>>
    /\ \A o \in Breakers \ {b} : circuitBreakerState[o] = Unset

\* ------------------------------------------------------------------------
\* Properties of the handlers
\* ------------------------------------------------------------------------

\* C7: in create-order, when the user-validation call fails (error of the
\* wrapped call or error of the breaker) the handler returns without the
\* payment call: the payment breaker and its request counters are untouched;
\* when either dependency call fails the request ends with 502, no order is
\* counted and the duration is observed; and on every path the duration is
\* observed exactly once, when the handler returns.
C7_CreateOrderErrorPaths ==
  [][\A r \in Handlers :
       LET moved == h'[r] # h[r]
           wrappedError(b) ==
             /\ h[r].pc = HttpPc(b)
             /\ downstreamRequestsTotal'[b].error = downstreamRequestsTotal[b].error + 1
           breakerError(b) ==
             /\ h[r].pc = CallPc(b)
             /\ ExecuteBefore(b).err # "nil"
           failed(b) == moved /\ (wrappedError(b) \/ breakerError(b))
           returns == h[r].pc # "idle" /\ h'[r].pc = "idle"
       IN service = "order-service" =>
            /\ failed("user-service") =>
                 /\ h'[r].pc = "idle"
                 /\ cb'["payment-service"] = cb["payment-service"]
                 /\ downstreamRequestsTotal'["payment-service"]
                      = downstreamRequestsTotal["payment-service"]
            /\ \A b \in OrderBreakers :
                 failed(b) =>
                   /\ returns
                   /\ httpRequestsTotal'[502] = httpRequestsTotal[502] + 1
                   /\ ordersCreatedTotal' = ordersCreatedTotal
                   /\ processingDuration' = processingDuration + 1
            /\ moved =>
                 processingDuration' = processingDuration + (IF returns THEN 1 ELSE 0)
            /\ processingDuration' = seqCounter' - inFlight']_vars

\* orders failed on the user-validation call, by an error of the call and by
\* the open breaker, while others were created or met the internal error
C7_Witness ==
  /\ service = "order-service"
  /\ cb["user-service"].state = StateOpen
  /\ errorLog = "ErrOpenState"
  /\ downstreamRequestsTotal["user-service"].error >= 3
  /\ httpRequestsTotal[502] >= 4
  /\ httpRequestsTotal[500] >= 1
  /\ ordersCreatedTotal >= 1
  /\ processingDuration = MaxOrders

\* C8: the in-flight gauge (orders_in_progress, payments_in_flight) equals
\* the number of handlers that are executing, under any interleaving; it is
\* never negative and it is 0 when every request has completed.
C8_InFlightGauge ==
  /\ inFlight = Cardinality({r \in Handlers : h[r].pc # "idle"})
  /\ inFlight >= 0
  /\ inFlight = seqCounter - (httpRequestsTotal[201] + httpRequestsTotal[402]
                                + httpRequestsTotal[500] + httpRequestsTotal[502])
  /\ (\A r \in Handlers : h[r].pc = "idle") => inFlight = 0

\* every request has completed, on more than one path, and the gauge is 0
C8_Witness ==
  /\ pending = 0
  /\ \A r \in Handlers : h[r].pc = "idle"
  /\ inFlight = 0
  /\ seqCounter = MaxServed
  /\ Cardinality({c \in HttpStatuses : httpRequestsTotal[c] > 0}) >= 2

\* C9: while the payment breaker of order-service is Open within its
\* cooldown, a create-order call fails fast: no handler starts the simulated
\* latency sleep and no handler starts a downstream HTTP call.
C9_OpenFailsFast ==
  [][(/\ service = "order-service"
      /\ cb["payment-service"].state = StateOpen
      /\ now <= cb["payment-service"].expiry) =>
       \A r \in Handlers :
         h'[r].pc \in {"sleep", "user_http", "pay_http"} => h'[r].pc = h[r].pc]_vars

\* C10: when payment-service answers a non-success status (402, 500) the
\* wrapped call counts as an error of the payment dependency, create-order
\* answers 502 and no order is created.
C10_NonSuccessIsError ==
  [][\A r \in Handlers, o \in Outcomes, e \in BOOLEAN :
       (/\ o.kind = "response"
        /\ o.code \notin {200, 201}
        /\ callDownstreamEnd(r, "payment-service", o, e)) =>
         /\ downstreamRequestsTotal'["payment-service"].error
              = downstreamRequestsTotal["payment-service"].error + 1
         /\ httpRequestsTotal'[502] = httpRequestsTotal[502] + 1
         /\ ordersCreatedTotal' = ordersCreatedTotal]_vars

\* C11: every dependency failure a handler sees, an error of the wrapped
\* call or a rejection by the breaker, increments downstream_requests_total
\* of that dependency's label with status "error" exactly once and leaves
\* the counters of the other labels alone.
C11_FailureCountedOnce ==
  [][\A r \in Handlers, b \in Breakers :
       LET begins == \/ callDownstreamBegin(r, b)
                     \/ /\ b = "fraud-detection"
                        /\ \E d \in BOOLEAN, g \in BOOLEAN : runFraudCheckBegin(r, d, g)
           failedEnd ==
             \/ \E o \in Outcomes, e \in BOOLEAN :
                  /\ o.kind # "response" \/ o.code >= 500
                  /\ callDownstreamEnd(r, b, o, e)
             \/ /\ b = "fraud-detection"
                /\ \E d \in BOOLEAN, g \in BOOLEAN : runFraudCheckEnd(r, TRUE, d, g)
           rejected == begins /\ h'[r].pc = "idle"
       IN (rejected \/ failedEnd) =>
            /\ downstreamRequestsTotal'[b].error = downstreamRequestsTotal[b].error + 1
            /\ \A o \in Breakers \ {b} :
                 downstreamRequestsTotal'[o] = downstreamRequestsTotal[o]]_vars

\* ------------------------------------------------------------------------
\* Process lifecycle: warm-up, probes, shutdown (main of the three services)
\* ------------------------------------------------------------------------
MaxUptime == 3        \* seconds the clock of a lifecycle behaviour runs
MaxProbed == 5        \* requests the clients send in a lifecycle behaviour

AllServices == Services \cup {"user-service"}

\* time.Sleep(2 * time.Second) of order-service and payment-service,
\* time.Sleep(1 * time.Second) of user-service
WarmUp(svc) == IF svc = "user-service" THEN 1 ELSE 2

\* one second passes
TickSecond ==
  /\ phase # "stopped"
  /\ now < MaxUptime
  /\ now' = now + 1
  /\ UNCHANGED <<service, breakerVars, downstreamRequestsTotal, inFlight, seqCounter,
                 ordersCreatedTotal, processingDuration, paymentTransactionsTotal,
                 httpRequestsTotal, errorLog, h, pending, ledgerVars>>
  /\ UNCHANGED lifecycleVars
  /\ UNCHANGED <<pureVars, loadgenVars, userVars, sequenceVars>>

\* go func() { time.Sleep(..); srv.ready.Store(true) }(): Sleep returns no
\* sooner than the warm-up window, the store follows whenever the goroutine
\* is scheduled
warmUpDone ==
  /\ phase # "stopped"
  /\ warmup = "sleeping"
  /\ now >= WarmUp(service)
  /\ warmup' = "done"
  /\ ready' = TRUE
  /\ UNCHANGED <<phase, probe, handlerVars>>
  /\ UNCHANGED <<pureVars, loadgenVars, userVars, sequenceVars>>

\* main receives SIGINT or SIGTERM: srv.ready.Store(false), then
\* httpServer.Shutdown is under way
shutdownSignal ==
  /\ phase = "running"
  /\ phase' = "shutting"
  /\ ready' = FALSE
  /\ UNCHANGED <<warmup, probe, handlerVars>>
  /\ UNCHANGED <<pureVars, loadgenVars, userVars, sequenceVars>>

\* httpServer.Shutdown returned (every connection idle, or the 30s are
\* over) and main returns: the process is gone
serverStopped ==
  /\ phase = "shutting"
  /\ phase' = "stopped"
  /\ UNCHANGED <<ready, warmup, probe, handlerVars>>
  /\ UNCHANGED <<pureVars, loadgenVars, userVars, sequenceVars>>

\* the handler that always answers not ready
handleReadyzStuck ==
  /\ phase # "stopped"
  /\ probe' = [path |-> "/readyz", status |-> 503]
  /\ UNCHANGED <<ready, warmup, phase, handlerVars>>
  /\ UNCHANGED <<pureVars, loadgenVars, userVars, sequenceVars>>

\* Server.handleReadyz: 503 unless s.ready.Load(); metricsMiddleware passes
\* /readyz through without counting it
handleReadyz ==
  /\ phase # "stopped"
  /\ probe' = [path |-> "/readyz", status |-> IF ready THEN 200 ELSE 503]
  /\ UNCHANGED <<ready, warmup, phase, handlerVars>>
  /\ UNCHANGED <<pureVars, loadgenVars, userVars, sequenceVars>>

\* a liveness handler that follows the readiness flag
handleHealthzIfReady ==
  /\ phase # "stopped"
  /\ probe' = [path |-> "/healthz", status |-> IF ready THEN 200 ELSE 503]
  /\ UNCHANGED <<ready, warmup, phase, handlerVars>>
  /\ UNCHANGED <<pureVars, loadgenVars, userVars, sequenceVars>>

\* Server.handleHealthz: writeJSON(w, http.StatusOK, ..); metricsMiddleware
\* passes /healthz through without counting it
handleHealthz ==
  /\ phase # "stopped"
  /\ probe' = [path |-> "/healthz", status |-> 200]
  /\ UNCHANGED <<ready, warmup, phase, handlerVars>>
  /\ UNCHANGED <<pureVars, loadgenVars, userVars, sequenceVars>>

InitLifecycleProcess ==
  /\ \E svc \in AllServices :
       InitProcess(svc, IF svc = "user-service" THEN 0 ELSE MaxProbed)
  /\ InitLifecycle /\ call = NoCall /\ NoLoadgen /\ NoUser /\ NoSequence

\* the process serves its probes and, while it is not stopped, a burst of
\* requests whose guarded dependency is down or healthy
NextLifecycle ==
  \/ TickSecond
  \/ warmUpDone
  \/ shutdownSignal
  \/ serverStopped
  \/ handleReadyz
  \/ handleHealthz
  \/ \E r \in Handlers : phase # "stopped" /\ handleCreateOrderEnter(r)
  \/ \E r \in Handlers, b \in OrderBreakers : phase # "stopped" /\ callDownstreamBegin(r, b)
  \/ \E r \in Handlers, b \in OrderBreakers :
       \E o \in BurstOutcomes(b) : phase # "stopped" /\ callDownstreamEnd(r, b, o, FALSE)
  \/ \E r \in Handlers : phase # "stopped" /\ handleProcessPaymentEnter(r)
  \/ \E r \in Handlers : phase # "stopped" /\ runFraudCheckBegin(r, FALSE, FALSE)
  \/ \E r \in Handlers, t \in BOOLEAN :
       phase # "stopped" /\ runFraudCheckEnd(r, t, FALSE, FALSE)

SpecLifecycle == InitLifecycleProcess /\ [][NextLifecycle]_vars

C13_HealthzAlwaysOk ==
  /\ [](probe.path = "/healthz" => probe.status = 200)
  /\ [][handleHealthz =>
          /\ probe' = [path |-> "/healthz", status |-> 200]
          /\ UNCHANGED <<handlerVars, ready, warmup, phase>>]_vars

\* /healthz answered 200 during shutdown, before the warm-up completed, with
\* a breaker Open and a request in flight
C13_Witness ==
  /\ probe = [path |-> "/healthz", status |-> 200]
  /\ phase = "shutting"
  /\ ~ready
  /\ inFlight > 0
  /\ \E b \in Breakers : cb[b].state = StateOpen

\* ------------------------------------------------------------------------
\* Pure functions: simulateLatency (the three services), selectEndpoint and
\* diurnalMultiplier (load generator).  Init draws the arguments and the
\* random draws, one action applies the function.
\* ------------------------------------------------------------------------
NormRange == 8        \* rand.NormFloat64() ranges over -NormRange/2 .. NormRange/2 in steps of 1/2

\* the (baseMsec, jitterMsec) of the simulateLatency calls of a service
LatencyProfiles(svc) ==
  CASE svc = "order-service" -> {<<50, 20>>, <<30, 10>>, <<200, 80>>}
    [] svc = "payment-service" ->
         {<<40, 15>>, <<25, 10>>, <<150, 50>>, <<180, 60>>, <<500, 200>>, <<100, 30>>,
          <<20, 10>>}
    [] OTHER -> {<<30, 10>>, <<5, 2>>, <<15, 5>>, <<50, 20>>, <<20, 8>>, <<10, 5>>, <<80, 30>>}

\* the lower clamp of delay in half milliseconds: `if delay < 1 { delay = 1 }`
\* in order-service and payment-service, `if delay < 0.5 { delay = 0.5 }` in
\* user-service
LatencyFloor2(svc) == IF svc = "user-service" THEN 1 ELSE 2

\* twice the factor of the slow response, 3 + u*7 (2 + u*5 in user-service),
\* for the draw u = u2/2 of rand.Float64()
SlowFactor2(svc, u2) == IF svc = "user-service" THEN 4 + 5 * u2 ELSE 6 + 7 * u2

\* simulateLatency(baseMsec, jitterMsec, slowProb) in milliseconds, for the
\* draws norm2/2 of rand.NormFloat64(), slow of rand.Float64() < slowProb and
\* u2/2 of the second rand.Float64(); delay is kept in half milliseconds and
\* time.Duration(delay) truncates it to whole milliseconds
simulateLatency(svc, baseMsec, jitterMsec, norm2, slow, u2) ==
  LET drawn == 2 * baseMsec + jitterMsec * norm2
      delay == IF drawn < LatencyFloor2(svc) THEN LatencyFloor2(svc) ELSE drawn
      slowed == IF slow THEN delay + baseMsec * SlowFactor2(svc, u2) ELSE delay
  IN slowed \div 2

LatencyCalls ==
  {[fn |-> "simulateLatency", done |-> FALSE, result |-> 0,
    args |-> [svc |-> svc, baseMsec |-> p[1], jitterMsec |-> p[2],
              norm2 |-> n, slow |-> sl, u2 |-> u]] :
     svc \in AllServices, p \in LatencyProfiles("order-service")
                              \cup LatencyProfiles("payment-service")
                              \cup LatencyProfiles("user-service"),
     n \in -NormRange..NormRange, sl \in BOOLEAN, u \in 0..1}

\* the calls a service makes
ServiceLatencyCalls ==
  {c \in LatencyCalls : <<c.args.baseMsec, c.args.jitterMsec>> \in LatencyProfiles(c.args.svc)}

\* a handler calls simulateLatency
callSimulateLatency ==
  /\ call.fn = "simulateLatency"
  /\ ~call.done
  /\ call' = [call EXCEPT !.done = TRUE,
                          !.result = simulateLatency(call.args.svc, call.args.baseMsec,
                                                     call.args.jitterMsec, call.args.norm2,
                                                     call.args.slow, call.args.u2)]
  /\ UNCHANGED <<handlerVars, lifecycleVars, loadgenVars, userVars, sequenceVars>>

\* C14: simulateLatency returns a strictly positive duration for every
\* latency profile of the three services and every value of the draws.
C14_LatencyPositive ==
  (call.fn = "simulateLatency" /\ call.done) => call.result > 0

\* ---- load generator: selectEndpoint -------------------------------------
MaxEndpoints == 3     \* endpoints of a target
MaxWeight == 2        \* endpoint weights range over 0..MaxWeight
DrawSteps == 4        \* rand.Float64() ranges over 0, 1/DrawSteps, .., (DrawSteps-1)/DrawSteps

RECURSIVE SumWeights(_)
\* totalWeight of the first loop of selectEndpoint
SumWeights(weights) ==
  IF weights = << >> THEN 0 ELSE weights[1] + SumWeights(Tail(weights))

RECURSIVE ScanEndpoints(_, _, _, _)
\* the second loop of selectEndpoint from endpoint i on, with the weight
\* accumulated so far and r = k/DrawSteps * totalWeight: the index of the
\* endpoint returned, the last one when the loop runs out
ScanEndpoints(weights, i, cumulative, kTotal) ==
  IF i > Len(weights) THEN Len(weights)
  ELSE IF kTotal <= (cumulative + weights[i]) * DrawSteps THEN i
  ELSE ScanEndpoints(weights, i + 1, cumulative + weights[i], kTotal)

\* selectEndpoint(endpoints) for the draw k/DrawSteps of rand.Float64():
\* the index of the endpoint it returns
selectEndpoint(weights, k) == ScanEndpoints(weights, 1, 0, k * SumWeights(weights))

EndpointLists ==
  UNION {[1..n -> 0..MaxWeight] : n \in 1..MaxEndpoints}

SelectCalls ==
  {[fn |-> "selectEndpoint", done |-> FALSE, result |-> 0,
    args |-> [weights |-> w, k |-> k]] : w \in EndpointLists, k \in 0..(DrawSteps - 1)}

\* generateTraffic calls selectEndpoint
callSelectEndpoint ==
  /\ call.fn = "selectEndpoint"
  /\ ~call.done
  /\ call' = [call EXCEPT !.done = TRUE,
                          !.result = selectEndpoint(call.args.weights, call.args.k)]
  /\ UNCHANGED <<handlerVars, lifecycleVars, loadgenVars, userVars, sequenceVars>>

\* ---- load generator: diurnalMultiplier ----------------------------------

\* math.Cos(i * math.Pi / 12.0) in millionths, i = hour - 12
CosMicro(i) ==
  LET quarter == <<965926, 866025, 707107, 500000, 258819, 0>>
      a == IF i < 0 THEN -i ELSE i
  IN CASE a = 0 -> 1000000
       [] a <= 6 -> quarter[a]
       [] a < 12 -> -quarter[12 - a]
       [] OTHER -> -1000000

\* a curve whose trough is at 03:00: radians := float64(hour-15) * math.Pi / 12.0
diurnalTroughAtThree(hr) ==
  200000 + (8 * (500000 + CosMicro(IF hr - 15 < -12 THEN hr + 9 ELSE hr - 15) \div 2)) \div 10

\* diurnalMultiplier() at time.Now().Hour() = hr, in millionths:
\*   radians := float64(hour-12) * math.Pi / 12.0
\*   base := 0.5 + 0.5*math.Cos(radians); return 0.2 + 0.8*base
diurnalMultiplier(hr) ==
  200000 + (8 * (500000 + CosMicro(hr - 12) \div 2)) \div 10

\* generateTraffic calls diurnalMultiplier
callDiurnalMultiplier ==
  /\ call.fn = "diurnalMultiplier"
  /\ ~call.done
  /\ call' = [call EXCEPT !.done = TRUE, !.result = diurnalMultiplier(hour)]
  /\ UNCHANGED <<handlerVars, lifecycleVars, loadgenVars, userVars, sequenceVars>>

\* the next hour of the day begins; prev keeps the multiplier of the hour
\* that ends
hourPasses ==
  /\ call.fn = "diurnalMultiplier"
  /\ call.done
  /\ hour' = (hour + 1) % 24
  /\ call' = [call EXCEPT !.done = FALSE, !.args = [prev |-> call.result]]
  /\ UNCHANGED <<handlerVars, lifecycleVars, cfg, ctxDone, lgPhase, loop, currentRPS,
                 requestsSentTotal, requestVars, userVars, sequenceVars>>

\* ---- load generator: the sleep of generateTraffic ------------------------

\* time.Duration(x): the float x truncated toward zero
Truncate(num, den) == IF num >= 0 THEN num \div den ELSE -((-num) \div den)

\* a jitter of half the interval per unit of the normal draw
JitterTenthsFive == 3 + 2

\* jitter := time.Duration(float64(interval) * 0.3 * rand.NormFloat64())
JitterTenths == 3

\* rates in thousandths of a request per second: BaseRPS x diurnalMultiplier
\* (x BurstMultiplier) for the default 5 and for a large BASE_RPS
RateSamples == {200, 1000, 5000, 25000, 2000000}

\* time.Duration(float64(time.Second) / rps) in microseconds
IntervalOf(rate) == 1000000000 \div rate

\* generateTraffic: the duration handed to time.Sleep, in microseconds, for
\* a rate and the draw norm2/2 of rand.NormFloat64():
\*   interval := time.Duration(float64(time.Second) / rps)
\*   jitter := time.Duration(float64(interval) * 0.3 * rand.NormFloat64())
\*   sleepDuration := interval + jitter
\*   if sleepDuration < time.Millisecond { sleepDuration = time.Millisecond }
sleepDuration(rate, norm2) ==
  LET interval == IntervalOf(rate)
      jitter == Truncate(interval * JitterTenths * norm2, 20)
  IN IF interval + jitter < 1000 THEN 1000 ELSE interval + jitter

SleepCalls ==
  {[fn |-> "sleepDuration", done |-> FALSE, result |-> 0,
    args |-> [rate |-> m, norm2 |-> n]] : m \in RateSamples, n \in -NormRange..NormRange}

\* generateTraffic computes sleepDuration
callSleepDuration ==
  /\ call.fn = "sleepDuration"
  /\ ~call.done
  /\ call' = [call EXCEPT !.done = TRUE,
                          !.result = sleepDuration(call.args.rate, call.args.norm2)]
  /\ UNCHANGED <<handlerVars, lifecycleVars, loadgenVars, userVars, sequenceVars>>

InitPure ==
  /\ InitLifecycle
  /\ NoUser /\ NoSequence
  /\ \/ /\ call \in ServiceLatencyCalls
        /\ InitProcess(call.args.svc, 0)
        /\ NoLoadgen
     \/ /\ call \in SelectCalls
        /\ InitProcess("order-service", 0)
        /\ NoLoadgen
     \/ /\ call \in SleepCalls
        /\ InitProcess("order-service", 0)
        /\ NoLoadgen
     \/ /\ call = [fn |-> "diurnalMultiplier", done |-> FALSE, result |-> 0,
                   args |-> [prev |-> Unset]]
        /\ InitProcess("order-service", 0)
        /\ cfg = [BaseRPS |-> 0, BurstMultiplier |-> 0, BurstDuration |-> 0]
        /\ ctxDone = FALSE
        /\ lgPhase = "none"
        /\ loop = << >>
        /\ currentRPS = << >>
        /\ requestsSentTotal = << >>
        /\ NoRequests
        /\ hour \in 0..23

NextPure ==
  \/ callSimulateLatency
  \/ callSelectEndpoint
  \/ callSleepDuration
  \/ callDiurnalMultiplier
  \/ hourPasses

SpecPure == InitPure /\ [][NextPure]_vars

\* ---- claims about the pure functions -----------------------------------

\* the weight accumulated over the first i endpoints
CumulativeWeight(weights, i) == SumWeights(SubSeq(weights, 1, i))

\* C15: for an endpoint list with at least one positive weight and any draw,
\* selectEndpoint returns the first endpoint whose cumulative weight exceeds
\* the draw r = rand * totalWeight; an endpoint of weight <= 0 is never
\* returned, and a one-endpoint list returns its endpoint.
C15_FirstExceedingDraw ==
  (/\ call.fn = "selectEndpoint"
   /\ call.done
   /\ \E i \in DOMAIN call.args.weights : call.args.weights[i] > 0)
  => LET w == call.args.weights
         kTotal == call.args.k * SumWeights(w)
         exceeding == {i \in DOMAIN w : kTotal < CumulativeWeight(w, i) * DrawSteps}
     IN /\ call.result \in exceeding
        /\ \A i \in exceeding : call.result <= i
        /\ w[call.result] > 0
        /\ (Len(w) = 1 => call.result = 1)

\* C17: the diurnal multiplier is 1.0 at hour 12 and 0.2 at hour 0, lies in
\* [0.2, 1.0] at every hour, and does not increase from one hour to the next
\* along 12, 13, .., 23, 0.
C17_DiurnalShape ==
  (call.fn = "diurnalMultiplier" /\ call.done)
  => /\ (hour = 12 => call.result = 1000000)
     /\ (hour = 0 => call.result = 200000)
     /\ call.result >= 200000
     /\ call.result <= 1000000
     /\ ((call.args.prev # Unset /\ (hour >= 13 \/ hour = 0))
         => call.result <= call.args.prev)

\* the multiplier of midnight computed after the one of 23:00
C17_Witness ==
  /\ call.fn = "diurnalMultiplier"
  /\ call.done
  /\ hour = 0
  /\ call.args.prev # Unset
  /\ call.result = 200000
  /\ call.result < call.args.prev

\* C18: the diurnal multiplier takes its minimum value 0.2 at 3 AM.
C18_TroughAtThree ==
  (call.fn = "diurnalMultiplier" /\ call.done /\ hour = 3)
  => call.result = 200000

\* ---- load generator: main, run, generateTraffic --------------------------
NumTargets == 2       \* traffic loops started by run, of the three targets
MaxClock == 13        \* seconds of wall clock
MaxSent == 2          \* requests a loop dispatches

StartupWait == 10
AllTargets == <<"order-service", "payment-service", "user-service">>
Targets == {AllTargets[i] : i \in 1..NumTargets}

\* strconv.ParseFloat(getEnv(key, fallback), 64) and strconv.Atoi of the
\* same: the value, 0 with an error when the text is no number
ParseNumber(text, fallback) ==
  CASE text = "unset" -> [val |-> fallback, err |-> FALSE]
    [] text = "0" -> [val |-> 0, err |-> FALSE]
    [] text = "1" -> [val |-> 1, err |-> FALSE]
    [] text = "2" -> [val |-> 2, err |-> FALSE]
    [] OTHER -> [val |-> 0, err |-> TRUE]

\* environments the process may be started with
Environments ==
  [BASE_RPS : {"unset", "0", "abc"},
   BURST_MULTIPLIER : {"unset", "abc"},
   BURST_DURATION_SEC : {"unset", "1"}]

\* loadConfig: every parse error is discarded
loadConfig(env) ==
  [BaseRPS |-> ParseNumber(env.BASE_RPS, 5).val,
   BurstMultiplier |-> ParseNumber(env.BURST_MULTIPLIER, 5).val,
   BurstDuration |-> ParseNumber(env.BURST_DURATION_SEC, 30).val]

\* the state of a process that is not the load generator, except its clock
serviceVars == <<service, cb, circuitBreakerState, downstreamRequestsTotal, inFlight,
                 seqCounter, ordersCreatedTotal, processingDuration,
                 paymentTransactionsTotal, httpRequestsTotal, stateChangeLog, errorLog,
                 h, pending, paymentAmountTotal>>

\* generateTraffic has not started
NoLoop == [pc |-> "none", inBurst |-> FALSE, burstEnd |-> ZeroTime]

\* seconds pass
TickLoadgen ==
  /\ lgPhase # "stopped"
  /\ now < MaxClock
  /\ now' = now + 1
  /\ UNCHANGED <<serviceVars, lifecycleVars, pureVars, loadgenVars, userVars, sequenceVars>>

\* main: time.Sleep(10 * time.Second) returns and lg.run starts one
\* generateTraffic goroutine per target
run ==
  /\ lgPhase = "startup"
  /\ now >= StartupWait
  /\ lgPhase' = "running"
  /\ loop' = [t \in Targets |-> [pc |-> "top", inBurst |-> FALSE, burstEnd |-> ZeroTime]]
  /\ UNCHANGED <<cfg, ctxDone, currentRPS, requestsSentTotal, hour, requestVars>>
  /\ UNCHANGED <<handlerVars, lifecycleVars, pureVars, userVars, sequenceVars>>

\* main: go func() { <-stop; cancel() }()
cancel ==
  /\ lgPhase \in {"startup", "running"}
  /\ ~ctxDone
  /\ ctxDone' = TRUE
  /\ UNCHANGED <<cfg, lgPhase, loop, currentRPS, requestsSentTotal, hour, requestVars>>
  /\ UNCHANGED <<handlerVars, lifecycleVars, pureVars, userVars, sequenceVars>>

\* now.After(burstEnd), taken one second too early
BurstOverAtEnd(at, burstEnd) == at >= burstEnd

\* now.After(burstEnd)
BurstOver(at, burstEnd) == at > burstEnd

\* generateTraffic, one iteration from the top of the loop to time.Sleep:
\* trigger is rand.Float64() < BurstProbability. A rate of 0 makes interval
\* time.Duration(+Inf), a conversion whose result depends on the platform:
\* the sleep is then either the 1ms minimum or one that never returns.
generateTrafficEvaluate(t, trigger, wakes) ==
  /\ lgPhase = "running"
  /\ loop[t].pc = "top"
  /\ ~ctxDone
  /\ LET rps == cfg.BaseRPS * diurnalMultiplier(hour)
         triggered == ~loop[t].inBurst /\ trigger
         inBurst1 == loop[t].inBurst \/ triggered
         burstEnd1 == IF triggered THEN now + cfg.BurstDuration ELSE loop[t].burstEnd
         over == inBurst1 /\ BurstOver(now, burstEnd1)
         inBurst2 == inBurst1 /\ ~over
         rps2 == IF inBurst2 THEN rps * cfg.BurstMultiplier ELSE rps
     IN /\ (rps2 # 0 => wakes)
        /\ currentRPS' = [currentRPS EXCEPT ![t] = rps2]
        /\ loop' = [loop EXCEPT ![t] = [pc |-> IF wakes THEN "sleeping" ELSE "blocked",
                                        inBurst |-> inBurst2,
                                        burstEnd |-> burstEnd1]]
  /\ UNCHANGED <<cfg, ctxDone, lgPhase, requestsSentTotal, hour, requestVars>>
  /\ UNCHANGED <<handlerVars, lifecycleVars, pureVars, userVars, sequenceVars>>

\* generateTraffic: time.Sleep returns, selectEndpoint, go lg.sendRequest,
\* whose first effect is requestsSentTotal.Inc(); back to the top of the loop
generateTrafficDispatch(t) ==
  /\ lgPhase = "running"
  /\ loop[t].pc = "sleeping"
  /\ requestsSentTotal[t] < MaxSent \/ ctxDone
  /\ requestsSentTotal' = [requestsSentTotal EXCEPT ![t] = @ + 1]
  /\ sending' = [sending EXCEPT ![t] = @ + 1]
  /\ loop' = [loop EXCEPT ![t].pc = "top"]
  /\ UNCHANGED <<cfg, ctxDone, lgPhase, currentRPS, hour, responsesReceivedTotal,
                 requestErrors>>
  /\ UNCHANGED <<handlerVars, lifecycleVars, pureVars, userVars, sequenceVars>>

\* an error counter that follows the sampled log line
requestErrorsIncSampled(errs, t, type, logged) ==
  IF logged THEN [errs EXCEPT ![type] = @ + 1] ELSE errs

\* requestErrors.WithLabelValues(target.Name, type).Inc()
requestErrorsInc(errs, t, type, logged) == [errs EXCEPT ![type] = @ + 1]

\* how a sendRequest goroutine ends: http.NewRequest fails, client.Do fails,
\* or a response with some status arrives
RequestOutcomes == {"request_creation", "connection", "response"}
ResponseCodes == {200, 500}

\* sendRequest after requestsSentTotal.Inc() to its return; logged is the
\* draw of the sampled log line (rand.Float64() < 0.01 on a connection
\* error, < 0.1 on a status of 500 and above). The goroutines end with the
\* process when main returns.
sendRequestEnd(t, outcome, status, logged) ==
  /\ lgPhase = "running"
  /\ sending[t] > 0
  /\ sending' = [sending EXCEPT ![t] = @ - 1]
  /\ IF outcome = "response"
       THEN /\ responsesReceivedTotal' = responsesReceivedTotal + 1
            /\ UNCHANGED requestErrors
       ELSE /\ requestErrors' = requestErrorsInc(requestErrors, t, outcome, logged)
            /\ UNCHANGED responsesReceivedTotal
  /\ UNCHANGED <<cfg, ctxDone, lgPhase, loop, currentRPS, requestsSentTotal, hour>>
  /\ UNCHANGED <<handlerVars, lifecycleVars, pureVars, userVars, sequenceVars>>

\* a loop that parks on cancellation instead of returning
generateTrafficHangs(t) ==
  /\ lgPhase = "running"
  /\ loop[t].pc = "top"
  /\ ctxDone
  /\ loop' = [loop EXCEPT ![t].pc = "blocked"]
  /\ UNCHANGED <<cfg, ctxDone, lgPhase, currentRPS, requestsSentTotal, hour, requestVars>>
  /\ UNCHANGED <<handlerVars, lifecycleVars, pureVars, userVars, sequenceVars>>

\* generateTraffic: case <-ctx.Done(): return
generateTrafficStop(t) ==
  /\ lgPhase = "running"
  /\ loop[t].pc = "top"
  /\ ctxDone
  /\ loop' = [loop EXCEPT ![t].pc = "stopped"]
  /\ UNCHANGED <<cfg, ctxDone, lgPhase, currentRPS, requestsSentTotal, hour, requestVars>>
  /\ UNCHANGED <<handlerVars, lifecycleVars, pureVars, userVars, sequenceVars>>

\* run: wg.Wait() returns; main shuts the metrics server down and returns
runReturns ==
  /\ lgPhase = "running"
  /\ \A t \in Targets : loop[t].pc = "stopped"
  /\ lgPhase' = "stopped"
  /\ UNCHANGED <<cfg, ctxDone, loop, currentRPS, requestsSentTotal, hour, requestVars>>
  /\ UNCHANGED <<handlerVars, lifecycleVars, pureVars, userVars, sequenceVars>>

\* main of the load generator up to time.Sleep(10 * time.Second)
InitLoadgen ==
  /\ InitProcess("load-generator", 0)
  /\ InitLifecycle
  /\ NoUser /\ NoSequence
  /\ call = NoCall
  /\ \E env \in Environments : cfg = loadConfig(env)
  /\ ctxDone = FALSE
  /\ lgPhase = "startup"
  /\ loop = [t \in Targets |-> NoLoop]
  /\ currentRPS = [t \in Targets |-> Unset]
  /\ requestsSentTotal = [t \in Targets |-> 0]
  /\ sending = [t \in Targets |-> 0]
  /\ responsesReceivedTotal = 0
  /\ requestErrors = [type \in {"request_creation", "connection"} |-> 0]
  /\ hour \in {0, 12}

NextLoadgen ==
  \/ TickLoadgen
  \/ run
  \/ cancel
  \/ \E t \in Targets, trigger \in BOOLEAN, wakes \in BOOLEAN :
       generateTrafficEvaluate(t, trigger, wakes)
  \/ \E t \in Targets : generateTrafficDispatch(t)
  \/ \E t \in Targets : generateTrafficStop(t)
  \/ runReturns

SpecLoadgen == InitLoadgen /\ [][NextLoadgen]_vars

\* the configuration holds a rate or burst setting of zero
ZeroRateConfig == cfg.BaseRPS = 0 \/ cfg.BurstMultiplier = 0

\* C16: with a configuration error (a base rate or burst setting that is
\* unparsable or yields a zero rate) the load generator fails at startup: it
\* never reaches the traffic loop and never dispatches a request.
C16_FailsAtStartup ==
  (lgPhase # "none" /\ ZeroRateConfig)
  => /\ lgPhase = "startup"
     /\ \A t \in Targets : requestsSentTotal[t] = 0

\* C19: once a burst is triggered at time t, every evaluation at a time
\* <= t + BurstDuration (the triggering one included) reports
\* BaseRPS x diurnalMultiplier x BurstMultiplier and leaves the burst and its
\* end untouched; the first evaluation at a time > t + BurstDuration returns
\* the loop to normal and reports the unmultiplied rate.
C19_BurstWindow ==
  [][\A t \in Targets, trigger \in BOOLEAN, wakes \in BOOLEAN :
       generateTrafficEvaluate(t, trigger, wakes)
       => LET base == cfg.BaseRPS * diurnalMultiplier(hour)
              ends == IF loop[t].inBurst THEN loop[t].burstEnd
                      ELSE now + cfg.BurstDuration
          IN /\ ((loop[t].inBurst \/ trigger) /\ now <= ends)
                => /\ currentRPS'[t] = base * cfg.BurstMultiplier
                   /\ loop'[t].inBurst
                   /\ loop'[t].burstEnd = ends
             /\ (loop[t].inBurst /\ now > ends)
                => /\ currentRPS'[t] = base
                   /\ ~loop'[t].inBurst
             /\ (~loop[t].inBurst /\ ~trigger)
                => /\ currentRPS'[t] = base
                   /\ ~loop'[t].inBurst]_vars

\* a loop is back to normal after a burst that lasted its whole duration
C19_Witness ==
  /\ lgPhase = "running"
  /\ cfg.BaseRPS > 0
  /\ cfg.BurstMultiplier > 1
  /\ \E t \in Targets :
       /\ loop[t].pc = "sleeping"
       /\ ~loop[t].inBurst
       /\ loop[t].burstEnd # ZeroTime
       /\ now > loop[t].burstEnd
       /\ currentRPS[t] = cfg.BaseRPS * diurnalMultiplier(hour)
       /\ requestsSentTotal[t] > 0

\* C20: after the context is cancelled no traffic loop dispatches a new
\* request, a loop sleeping at the cancellation included.
C20_NoDispatchAfterCancel ==
  [][ctxDone => requestsSentTotal' = requestsSentTotal]_vars

\* ---- shutdown against the warm-up goroutine -------------------------------

\* C30: once the stop signal was received and the ready flag cleared, the
\* readiness endpoint never answers 200 again, in every interleaving of the
\* warm-up goroutine with the shutdown path.
C30_NotReadyAfterStop ==
  [][(phase # "running" /\ handleReadyz) => probe'.status # 200]_vars

\* ---- tail latency ------------------------------------------------------------

\* C24: when a tail spike occurs the delay simulateLatency adds is base x u
\* with u in [3, 10), in every service: the returned milliseconds exceed the
\* ones of the same draw without spike by 3 x base to 10 x base (half a
\* millisecond of truncation apart).
C24_TailSpikeFactor ==
  (call.fn = "simulateLatency" /\ call.done /\ call.args.slow)
  => LET a == call.args
         plain == simulateLatency(a.svc, a.baseMsec, a.jitterMsec, a.norm2, FALSE, a.u2)
         extra == call.result - plain
     IN /\ 2 * extra >= 6 * a.baseMsec - 1
        /\ 2 * extra < 20 * a.baseMsec + 1

\* ---- one breaker per dependency ------------------------------------------

\* C27: a call through the breaker of one dependency of order-service,
\* whatever its result, leaves the state and the counters of the breaker of
\* the other dependency unchanged.
C27_BreakersIndependent ==
  [][\A r \in Handlers, b \in OrderBreakers, o \in Outcomes, e \in BOOLEAN :
       (callDownstreamBegin(r, b) \/ callDownstreamEnd(r, b, o, e))
       => \A other \in OrderBreakers \ {b} :
            /\ cb'[other] = cb[other]
            /\ circuitBreakerState'[other] = circuitBreakerState[other]
            /\ stateChangeLog'[other] = stateChangeLog[other]
            /\ downstreamRequestsTotal'[other] = downstreamRequestsTotal[other]]_vars

\* the user-service breaker has opened on failures while the payment-service
\* breaker, which served calls before, is Closed with no failure counted
C27_Witness ==
  /\ cb["user-service"].state = StateOpen
  /\ cb["payment-service"].state = StateClosed
  /\ cb["payment-service"].counts.TotalSuccesses > 0
  /\ cb["payment-service"].counts.TotalFailures = 0

\* ---- the sleep between dispatches ----------------------------------------

\* the magnitude of an integer
Abs(x) == IF x < 0 THEN -x ELSE x

\* C25 as stated: for every rate and every draw the interval slept lies in
\* [0.7/rate, 1.3/rate].
C25_WithinThirtyPercent ==
  (call.fn = "sleepDuration" /\ call.done)
  => LET interval == IntervalOf(call.args.rate)
     IN /\ 7 * interval <= 10 * call.result
        /\ 10 * call.result <= 13 * (interval + 1)

\* C25: for every positive rate and every draw N of the normal distribution
\* the interval slept is 1/rate + 0.3 x N x (1/rate), raised to 1 ms when
\* smaller: never below 1 ms, away from 1/rate by 0.3 x |N| / rate unless
\* raised, and within [0.7/rate, 1.3/rate] when |N| <= 1 and 0.7/rate is at
\* least 1 ms.
C25_JitterScalesWithDraw ==
  (call.fn = "sleepDuration" /\ call.done)
  => LET interval == IntervalOf(call.args.rate)
         n == Abs(call.args.norm2)
         off == Abs(call.result - interval)
     IN /\ call.result >= 1000
        /\ (call.result > 1000
            => /\ 20 * off <= 3 * n * interval
               /\ 20 * off > 3 * n * interval - 20)
        /\ ((n <= 2 /\ 7 * interval >= 10000)
            => /\ 7 * interval <= 10 * call.result
               /\ 10 * call.result <= 13 * interval)

\* a draw beyond one standard deviation: the sleep exceeds 1.3/rate
C25_Witness ==
  /\ call.fn = "sleepDuration"
  /\ call.done
  /\ call.args.norm2 > 2
  /\ 10 * call.result > 13 * (IntervalOf(call.args.rate) + 1)

\* ------------------------------------------------------------------------
\* user-service: cache-aside lookup and authentication
\* ------------------------------------------------------------------------
MaxUserRequests == 4  \* requests the clients send in a behaviour of SpecUser

\* fmt.Sprintf("usr-%03d", i)
UserId(i) == <<"usr", i>>

\* the ids newServer pre-populates: for i := 100; i < 150; i++
SeededIds == {UserId(i) : i \in 100..149}

\* the userID of GET /api/users/{userID} and the ids handleCreateUser draws
\* (rand.Intn(9000)+1000)
RequestedIds == {UserId(100), UserId(149), UserId(150)}
CreatedIds == {UserId(1000), UserId(9999)}

\* userCache.Get: the stored user and whether the id is present
CacheGet(c, id) ==
  IF id \in DOMAIN c THEN [user |-> c[id], ok |-> TRUE]
                     ELSE [user |-> "nil", ok |-> FALSE]

\* a Set that stores nothing
CacheSetDropped(c, id, u) == c

\* userCache.Set: c.store[id] = u
CacheSet(c, id, u) == [x \in DOMAIN c \cup {id} |-> IF x = id THEN u ELSE c[x]]

\* the User a handler builds for an id
User(id, origin) == [ID |-> id, origin |-> origin]

\* newServer: the store after the loop of s.cache.Set over the ids to
\* pre-populate
SeededCache == [id \in SeededIds |-> User(id, "seed")]

AuthOutcomes == {"success", "invalid_credentials", "account_locked", "rate_limited"}

\* rand.Float64() in hundredths: the ends of [0, 1) and both sides of every
\* threshold of the switch
Rolls == {0, 50, 84, 85, 91, 92, 96, 97, 99}

\* handleAuthenticate: the switch over roll
AuthOutcome(roll) ==
  CASE roll < 85 -> "success"
    [] roll < 92 -> "invalid_credentials"
    [] roll < 97 -> "account_locked"
    [] OTHER -> "rate_limited"

\* the statuses of a locked account and of wrong credentials exchanged
AuthStatusSwapped(outcome) ==
  CASE outcome = "success" -> 200
    [] outcome = "invalid_credentials" -> 403
    [] outcome = "account_locked" -> 401
    [] OTHER -> 429

\* handleAuthenticate: http.StatusOK, StatusUnauthorized, StatusForbidden,
\* StatusTooManyRequests
AuthStatus(outcome) ==
  CASE outcome = "success" -> 200
    [] outcome = "invalid_credentials" -> 401
    [] outcome = "account_locked" -> 403
    [] OTHER -> 429

IdleUserHandler == [pc |-> "idle", id |-> "none"]

\* what a user-service handler leaves alone outside the user state
userFrame == <<service, now, cb, circuitBreakerState, downstreamRequestsTotal, inFlight,
               seqCounter, ordersCreatedTotal, processingDuration,
               paymentTransactionsTotal, httpRequestsTotal, stateChangeLog, errorLog, h,
               paymentAmountTotal, lifecycleVars, pureVars, loadgenVars, sequenceVars>>

\* handleGetUser from its entry to the answer from the cache or, on a miss,
\* to time.Sleep(simulateLatency(15, 5, 0.01))
handleGetUserLookup(r, id) ==
  /\ service = "user-service"
  /\ uh[r].pc = "idle"
  /\ pending > 0
  /\ pending' = pending - 1
  /\ userRequestsTotal' = [userRequestsTotal EXCEPT !["get"] = @ + 1]
  /\ cacheLatency' = [cacheLatency EXCEPT !["get"] = @ + 1]
  /\ LET got == CacheGet(cache, id) IN
       IF got.ok
         THEN /\ cacheHitsTotal' = [cacheHitsTotal EXCEPT !["hit"] = @ + 1]
              /\ reply' = [op |-> "get", id |-> id, status |-> 200, user |-> got.user]
              /\ UNCHANGED uh
         ELSE /\ cacheHitsTotal' = [cacheHitsTotal EXCEPT !["miss"] = @ + 1]
              /\ uh' = [uh EXCEPT ![r] = [pc |-> "db", id |-> id]]
              /\ UNCHANGED reply
  /\ UNCHANGED <<cache, userDBQueryDuration, userAuthAttemptsTotal>>
  /\ UNCHANGED userFrame

\* handleGetUser after the simulated DB query: the simulated error
\* (rand.Float64() < 0.001, answer 500) or the user stored and returned
handleGetUserQuery(r, dbError) ==
  /\ service = "user-service"
  /\ uh[r].pc = "db"
  /\ userDBQueryDuration' = userDBQueryDuration + 1
  /\ LET id == uh[r].id
         user == User(id, "db")
     IN IF dbError
          THEN /\ reply' = [op |-> "get", id |-> id, status |-> 500, user |-> "nil"]
               /\ UNCHANGED <<cache, cacheLatency>>
          ELSE /\ cache' = CacheSet(cache, id, user)
               /\ cacheLatency' = [cacheLatency EXCEPT !["set"] = @ + 1]
               /\ reply' = [op |-> "get", id |-> id, status |-> 200, user |-> user]
  /\ uh' = [uh EXCEPT ![r] = IdleUserHandler]
  /\ UNCHANGED <<cacheHitsTotal, userRequestsTotal, userAuthAttemptsTotal, pending>>
  /\ UNCHANGED userFrame

\* handleCreateUser: the simulated error or the new user stored under a
\* drawn id
handleCreateUser(r, id, internalError) ==
  /\ service = "user-service"
  /\ uh[r].pc = "idle"
  /\ pending > 0
  /\ pending' = pending - 1
  /\ userRequestsTotal' = [userRequestsTotal EXCEPT !["create"] = @ + 1]
  /\ IF internalError
       THEN /\ reply' = [op |-> "create", id |-> id, status |-> 500, user |-> "nil"]
            /\ UNCHANGED <<cache, userDBQueryDuration>>
       ELSE /\ userDBQueryDuration' = userDBQueryDuration + 1
            /\ cache' = CacheSet(cache, id, User(id, "created"))
            /\ reply' = [op |-> "create", id |-> id, status |-> 201,
                         user |-> User(id, "created")]
  /\ UNCHANGED <<cacheHitsTotal, cacheLatency, userAuthAttemptsTotal, uh>>
  /\ UNCHANGED userFrame

\* handleAuthenticate with roll := rand.Float64()
handleAuthenticate(r, roll) ==
  /\ service = "user-service"
  /\ uh[r].pc = "idle"
  /\ pending > 0
  /\ pending' = pending - 1
  /\ userRequestsTotal' = [userRequestsTotal EXCEPT !["authenticate"] = @ + 1]
  /\ LET outcome == AuthOutcome(roll) IN
       /\ userAuthAttemptsTotal' = [userAuthAttemptsTotal EXCEPT ![outcome] = @ + 1]
       /\ reply' = [op |-> "authenticate", id |-> "none", status |-> AuthStatus(outcome),
                    user |-> "nil"]
  /\ UNCHANGED <<cache, cacheHitsTotal, cacheLatency, userDBQueryDuration, uh>>
  /\ UNCHANGED userFrame

\* newServer of user-service
InitUser ==
  /\ InitProcess("user-service", MaxUserRequests)
  /\ InitLifecycle
  /\ call = NoCall
  /\ NoLoadgen
  /\ NoSequence
  /\ cache = SeededCache
  /\ cacheHitsTotal = [x \in {"hit", "miss"} |-> 0]
  /\ cacheLatency = [x \in {"get", "set"} |-> 0]
  /\ userDBQueryDuration = 0
  /\ userRequestsTotal = [x \in {"get", "create", "authenticate"} |-> 0]
  /\ userAuthAttemptsTotal = [x \in AuthOutcomes |-> 0]
  /\ reply = [op |-> "none", status |-> 0]
  /\ uh = [r \in Handlers |-> IdleUserHandler]

NextUser ==
  \/ \E r \in Handlers, id \in RequestedIds : handleGetUserLookup(r, id)
  \/ \E r \in Handlers, e \in BOOLEAN : handleGetUserQuery(r, e)
  \/ \E r \in Handlers, id \in CreatedIds, e \in BOOLEAN : handleCreateUser(r, id, e)
  \/ \E r \in Handlers, roll \in Rolls : handleAuthenticate(r, roll)

SpecUser == InitUser /\ [][NextUser]_vars

\* C22: every draw in [0,1) maps to exactly one of success (< 0.85),
\* invalid_credentials (< 0.92), account_locked (< 0.97), rate_limited
\* (otherwise); the request increments user_auth_attempts_total for that
\* outcome only and answers 200, 401, 403, 429 respectively.
C22_AuthOutcomeTotal ==
  [][\A r \in Handlers, roll \in Rolls :
       handleAuthenticate(r, roll)
       => LET expected == IF roll < 85 THEN <<"success", 200>>
                          ELSE IF roll < 92 THEN <<"invalid_credentials", 401>>
                          ELSE IF roll < 97 THEN <<"account_locked", 403>>
                          ELSE <<"rate_limited", 429>>
          IN /\ \A o \in AuthOutcomes :
                  userAuthAttemptsTotal'[o] =
                    userAuthAttemptsTotal[o] + (IF o = expected[1] THEN 1 ELSE 0)
             /\ reply'.op = "authenticate"
             /\ reply'.status = expected[2]]_vars

\* requests were answered 429 and 403
C22_Witness ==
  /\ reply.op = "authenticate"
  /\ reply.status = 429
  /\ userAuthAttemptsTotal["rate_limited"] = 1
  /\ userAuthAttemptsTotal["account_locked"] > 0

\* C23: a GET of a cached id is answered from the cache with no DB query; a
\* miss runs the DB query and, when it succeeds, stores the user; a miss
\* that ends in the simulated 500 leaves the cache unchanged; no operation
\* removes an entry, so the pre-populated ids usr-100..usr-149 always hit.
C23_CacheAside ==
  /\ [](\A i \in 100..149 : UserId(i) \in DOMAIN cache)
  /\ [][DOMAIN cache \subseteq DOMAIN cache']_vars
  /\ [][\A r \in Handlers, id \in RequestedIds :
          handleGetUserLookup(r, id)
          => IF id \in DOMAIN cache
               THEN /\ reply' = [op |-> "get", id |-> id, status |-> 200,
                                 user |-> cache[id]]
                    /\ cacheHitsTotal'["hit"] = cacheHitsTotal["hit"] + 1
                    /\ cacheHitsTotal'["miss"] = cacheHitsTotal["miss"]
                    /\ uh'[r].pc = "idle"
                    /\ UNCHANGED <<cache, userDBQueryDuration>>
               ELSE /\ cacheHitsTotal'["miss"] = cacheHitsTotal["miss"] + 1
                    /\ cacheHitsTotal'["hit"] = cacheHitsTotal["hit"]
                    /\ uh'[r] = [pc |-> "db", id |-> id]
                    /\ UNCHANGED cache]_vars
  /\ [][\A r \in Handlers, e \in BOOLEAN :
          handleGetUserQuery(r, e)
          => /\ userDBQueryDuration' = userDBQueryDuration + 1
             /\ IF e THEN reply'.status = 500 /\ cache' = cache
                     ELSE /\ reply'.status = 200
                          /\ uh[r].id \in DOMAIN cache'
                          /\ cache'[uh[r].id].ID = uh[r].id]_vars

\* an id that was not pre-populated is answered from the cache after a miss
\* stored it, with one DB query made in all
C23_Witness ==
  /\ reply.op = "get"
  /\ reply.id = UserId(150)
  /\ reply.status = 200
  /\ cacheHitsTotal["hit"] > 0
  /\ cacheHitsTotal["miss"] = 1
  /\ userDBQueryDuration = 1
  /\ cacheLatency["set"] = 1

\* ------------------------------------------------------------------------
\* payment-service alone under a burst of payments that arrives within one
\* second (the clock stands still), with every draw of the handler
\* ------------------------------------------------------------------------
InitPayment ==
  /\ InitProcess("payment-service", MaxPayments)
  /\ InitLifecycle /\ call = NoCall /\ NoLoadgen /\ NoUser /\ NoSequence

NextPayment ==
  \/ \E r \in Handlers : handleProcessPaymentEnter(r)
  \/ \E r \in Handlers, d \in BOOLEAN, g \in BOOLEAN : runFraudCheckBegin(r, d, g)
  \/ \E r \in Handlers, t \in BOOLEAN, d \in BOOLEAN, g \in BOOLEAN :
       runFraudCheckEnd(r, t, d, g)

SpecPayment == InitPayment /\ [][NextPayment]_vars

\* the request of goroutine r ends in this step with the fraud check failed
\* or not: payment_transactions_total grows by one for one status, which is
\* fraud_check_failed when the check failed; 402 and no amount added unless
\* the status is success, 201 on success; the duration observed once
PaymentCounted(r, fraudFailed) ==
  /\ \E st \in PaymentStatuses :
       /\ paymentTransactionsTotal' =
            [paymentTransactionsTotal EXCEPT ![st] = @ + 1]
       /\ fraudFailed => st = "fraud_check_failed"
       /\ IF st = "success"
            THEN /\ httpRequestsTotal' = [httpRequestsTotal EXCEPT ![201] = @ + 1]
                 /\ paymentAmountTotal' >= paymentAmountTotal
            ELSE /\ httpRequestsTotal' = [httpRequestsTotal EXCEPT ![402] = @ + 1]
                 /\ paymentAmountTotal' = paymentAmountTotal
  /\ processingDuration' = processingDuration + 1
  /\ h'[r].pc = "idle"

\* C26: every process-payment request increments payment_transactions_total
\* exactly once with one status; a fraud-check error, the fraud breaker
\* rejecting the call included, yields fraud_check_failed whatever the other
\* draws; every non-success status answers 402 and adds nothing to
\* payment_amount_total, success answers 201; the duration is observed
\* exactly once on every path.
C26_PaymentCountedOnce ==
  [][\A r \in Handlers, t \in BOOLEAN, d \in BOOLEAN, g \in BOOLEAN :
       /\ runFraudCheckEnd(r, t, d, g) => PaymentCounted(r, t)
       /\ runFraudCheckBegin(r, d, g)
          => IF h'[r].pc = "idle"
               THEN PaymentCounted(r, TRUE)
               ELSE UNCHANGED <<paymentTransactionsTotal, paymentAmountTotal,
                                processingDuration, httpRequestsTotal>>
       /\ handleProcessPaymentEnter(r)
          => UNCHANGED <<paymentTransactionsTotal, paymentAmountTotal,
                         processingDuration, httpRequestsTotal>>]_vars

\* payments ended in success and in fraud_check_failed, one of the latter
\* rejected by the Open fraud breaker without running the check
C26_Witness ==
  /\ service = "payment-service"
  /\ cb["fraud-detection"].state = StateOpen
  /\ paymentTransactionsTotal["success"] > 0
  /\ paymentAmountTotal > 0
  /\ paymentTransactionsTotal["fraud_check_failed"]
       > downstreamRequestsTotal["fraud-detection"].error
  /\ httpRequestsTotal[402] >= paymentTransactionsTotal["fraud_check_failed"]

\* ------------------------------------------------------------------------
\* The create handlers of order-service and payment-service projected on the
\* sequence counter: a request takes its number at entry, keeps it in the
\* local seq while other requests run, and writes it into the id of its 201
\* response, or fails without an id.
\* ------------------------------------------------------------------------
IdPrefix == [s \in {"order-service", "payment-service"} |->
               IF s = "order-service" THEN "ord" ELSE "pay"]

sequenceFrame == <<now, cb, circuitBreakerState, downstreamRequestsTotal, inFlight,
                   ordersCreatedTotal, processingDuration, paymentTransactionsTotal,
                   httpRequestsTotal, stateChangeLog, errorLog, h, paymentAmountTotal,
                   lifecycleVars, pureVars, loadgenVars, userVars>>

\* seq := s.orderCounter.Add(1) / seq := s.paymentCounter.Add(1)
takeSequence(r) ==
  /\ sq[r].pc = "idle"
  /\ pending > 0
  /\ pending' = pending - 1
  /\ seqCounter' = CounterAdd(seqCounter)
  /\ sq' = [sq EXCEPT ![r] = [pc |-> "run", seq |-> seqCounter']]
  /\ takenSeqs' = [n \in DOMAIN takenSeqs \cup {seqCounter'} |->
                     IF n \in DOMAIN takenSeqs
                       THEN takenSeqs[n] + (IF n = seqCounter' THEN 1 ELSE 0)
                       ELSE 1]
  /\ UNCHANGED <<service, issuedIds, created, sequenceFrame>>

\* the 201 response: ID: fmt.Sprintf("ord-%06d", seq) / fmt.Sprintf("pay-%06d", seq)
writeCreated(r) ==
  /\ sq[r].pc = "run"
  /\ issuedIds' = issuedIds \cup {Sprintf06(IdPrefix[service], sq[r].seq)}
  /\ created' = created + 1
  /\ sq' = [sq EXCEPT ![r] = [pc |-> "idle", seq |-> 0]]
  /\ UNCHANGED <<service, seqCounter, pending, takenSeqs, sequenceFrame>>

\* the exits through writeError: no id is written
writeRejected(r) ==
  /\ sq[r].pc = "run"
  /\ sq' = [sq EXCEPT ![r] = [pc |-> "idle", seq |-> 0]]
  /\ UNCHANGED <<service, seqCounter, pending, takenSeqs, issuedIds, created,
                 sequenceFrame>>

InitSequence ==
  /\ \E s \in {"order-service", "payment-service"} : InitProcess(s, MaxPayments)
  /\ InitLifecycle /\ call = NoCall /\ NoLoadgen /\ NoUser
  /\ sq = [r \in Handlers |-> [pc |-> "idle", seq |-> 0]]
  /\ takenSeqs = << >>
  /\ issuedIds = {}
  /\ created = 0

NextSequence ==
  \/ \E r \in Handlers : takeSequence(r)
  \/ \E r \in Handlers : writeCreated(r)
  \/ \E r \in Handlers : writeRejected(r)

SpecSequence == InitSequence /\ [][NextSequence]_vars

\* C28: the sequence counters lose no update under concurrency: no sequence
\* number is handed to two requests, the requests in flight hold distinct
\* numbers, two created orders (payments) never carry the same id, and after
\* n requests have entered the counter equals n.
C28_NoLostSequence ==
  /\ \A n \in DOMAIN takenSeqs : takenSeqs[n] = 1
  /\ \A r1, r2 \in Handlers :
       (r1 # r2 /\ sq[r1].pc = "run" /\ sq[r2].pc = "run") => sq[r1].seq # sq[r2].seq
  /\ Cardinality(issuedIds) = created
  /\ seqCounter = MaxPayments - pending
  /\ DOMAIN takenSeqs = 1..seqCounter

\* two requests held their numbers at once, the later one was answered
\* first, and all the ids written so far differ
C28_Witness ==
  /\ created >= 3
  /\ \E r1, r2 \in Handlers :
       /\ sq[r1].pc = "run" /\ sq[r2].pc = "run"
       /\ sq[r1].seq + 1 < sq[r2].seq
       /\ Sprintf06(IdPrefix[service], sq[r1].seq + 1) \in issuedIds
  /\ Cardinality(issuedIds) = created

\* ------------------------------------------------------------------------
\* The load generator under its default configuration, with the sendRequest
\* goroutines running to their end beside the traffic loops
\* ------------------------------------------------------------------------
DefaultEnvironment == [v \in {"BASE_RPS", "BURST_MULTIPLIER", "BURST_DURATION_SEC"} |-> "unset"]

InitRequests ==
  /\ InitProcess("load-generator", 0)
  /\ InitLifecycle
  /\ NoUser /\ NoSequence
  /\ call = NoCall
  /\ cfg = loadConfig(DefaultEnvironment)
  /\ ctxDone = FALSE
  /\ lgPhase = "startup"
  /\ loop = [t \in Targets |-> NoLoop]
  /\ currentRPS = [t \in Targets |-> Unset]
  /\ requestsSentTotal = [t \in Targets |-> 0]
  /\ sending = [t \in Targets |-> 0]
  /\ responsesReceivedTotal = 0
  /\ requestErrors = [type \in {"request_creation", "connection"} |-> 0]
  /\ hour = 12

NextRequests ==
  \/ TickLoadgen
  \/ run
  \/ cancel
  \/ \E t \in Targets, trigger \in BOOLEAN, wakes \in BOOLEAN :
       generateTrafficEvaluate(t, trigger, wakes)
  \/ \E t \in Targets : generateTrafficDispatch(t)
  \/ \E t \in Targets, outcome \in RequestOutcomes, status \in ResponseCodes,
        logged \in BOOLEAN : sendRequestEnd(t, outcome, status, logged)
  \/ \E t \in Targets : generateTrafficStop(t)
  \/ runReturns

SpecRequests == InitRequests /\ [][NextRequests]_vars

\* the requests sent, over the services
SentTotal == SumWeights([i \in 1..NumTargets |-> requestsSentTotal[AllTargets[i]]])
SendingTotal == SumWeights([i \in 1..NumTargets |-> sending[AllTargets[i]]])

\* C21: a dispatch failure never stops a traffic loop and is always counted:
\* a dispatch increments loadgen_requests_sent_total by one and returns the
\* loop to its top without waiting for the request; the end of a request
\* increments exactly one of loadgen_request_errors_total (request_creation
\* or connection) and loadgen_responses_received_total by one, whatever the
\* draw of the sampled log line, and leaves the loops as they are; every
\* request sent is in flight or counted once.
C21_DispatchCounted ==
  /\ [](lgPhase # "none" =>
          SentTotal = SendingTotal + responsesReceivedTotal
                        + requestErrors["request_creation"] + requestErrors["connection"])
  /\ [][\A t \in Targets :
          /\ generateTrafficDispatch(t)
             => /\ requestsSentTotal' = [requestsSentTotal EXCEPT ![t] = @ + 1]
                /\ sending'[t] = sending[t] + 1
                /\ loop'[t].pc = "top"
                /\ UNCHANGED <<responsesReceivedTotal, requestErrors>>
          /\ \A outcome \in RequestOutcomes, status \in ResponseCodes, logged \in BOOLEAN :
               sendRequestEnd(t, outcome, status, logged)
               => /\ UNCHANGED <<requestsSentTotal, loop, lgPhase>>
                  /\ IF outcome = "response"
                       THEN /\ responsesReceivedTotal' = responsesReceivedTotal + 1
                            /\ UNCHANGED requestErrors
                       ELSE /\ requestErrors' = [requestErrors EXCEPT ![outcome] = @ + 1]
                            /\ UNCHANGED responsesReceivedTotal]_vars

\* a request failed to be created, another met a connection error, a third
\* was answered, and a loop is asleep for its next request while the
\* previous one is still in flight
C21_Witness ==
  /\ requestErrors["request_creation"] > 0
  /\ requestErrors["connection"] > 0
  /\ responsesReceivedTotal > 0
  /\ \E t \in Targets : loop[t].pc = "sleeping" /\ sending[t] > 0

\* the Go scheduler runs every runnable goroutine, the clock advances and
\* every sleep of a loop ends: each step of main and of the loops that stays
\* enabled is taken
SpecRequestsLive ==
  /\ SpecRequests
  /\ WF_vars(TickLoadgen)
  /\ WF_vars(run)
  /\ WF_vars(runReturns)
  /\ \A t \in Targets : /\ WF_vars(generateTrafficDispatch(t))
                        /\ WF_vars(generateTrafficStop(t))

\* C29: after the context is cancelled every traffic loop returns and run
\* returns, whether the cancellation comes during the startup wait or while
\* the loops run; cancelled during the startup wait, no request is ever
\* dispatched.
C29_CancelStopsRun ==
  /\ ctxDone ~> (lgPhase = "stopped" /\ \A t \in Targets : loop[t].pc = "stopped")
  /\ []((ctxDone /\ lgPhase = "startup")
          => [](\A t \in Targets : requestsSentTotal[t] = 0))

\* run has returned after a cancellation that came while the loops were
\* sending, one request still in flight
C29_Witness ==
  /\ ctxDone
  /\ lgPhase = "stopped"
  /\ \A t \in Targets : loop[t].pc = "stopped"
  /\ \E t \in Targets : requestsSentTotal[t] > 0 /\ sending[t] > 0
====
